---- MODULE Spec2Model ----
(***************************************************************************)
(* The agent loop of src/agent/agent.py (BrowserAgent.run) with the memory *)
(* store of src/agent/memory.py it writes to, the actuator lookup of       *)
(* src/browser/actions.py, the tool registry of src/agent/tools.py and     *)
(* what Planner.plan of src/agent/planner.py makes of the oracle's answer. *)
(* The observation source, the oracle and the action handlers are the      *)
(* environment: each call returns or raises one of a bounded set of        *)
(* outcomes.  What they raise is an Exception, which is what the except    *)
(* clauses of run and _execute_action catch.  A handler that catches its   *)
(* own failure returns a failed ActionResult; only what escapes the call   *)
(* is an exception to _execute_action.  The oracle's action name is free:  *)
(* Planner.plan passes on whatever name the model answers with.            *)
(***************************************************************************)
EXTENDS Integers, Sequences, FiniteSets, TLC

\* ------------------------------------------------------------------ bounds
\* largest max_steps an agent is constructed with
MaxSteps == 3
MaxCalls == 3          \* calls made on a Memory directly
MaxShortTerm == 2      \* largest short-term capacity tried
MaxLongTerm == 2       \* largest long-term capacity tried
MaxQueries == 1        \* queries made on a prepared Memory
MaxSubGoals == 2       \* sub-goals in a prepared Memory
MaxLedger == 6         \* actions, and notes, in a prepared Memory
MaxRecent == 4         \* observations, reflections, errors and promoted
                       \* items in a prepared Memory
MaxKept == 2           \* notes and errors, and actions and reflections, in
                       \* a Memory that is exported
MaxRuns == 2           \* run calls made on one agent
MaxRerunSteps == 1     \* largest max_steps of an agent that is run again
MaxLongSteps == 11     \* max_steps of a run long enough to evict the goal item
MaxLongErrors == 1     \* exceptions caught in such a run
MaxPool == 2           \* largest pool_size of a BrowserPool
MaxClients == 3        \* coroutines that acquire from and release to one pool
MaxSearched == 3       \* actions, flagged reflections, and promoted items
                       \* in a Memory prepared for search

\* ------------------------------------------------------- program constants
ShortTermCapacity == 20
LongTermCapacity == 100
ObservationsCacheLen == 5
DefaultMaxItems == 10

\* ------------------------------------------------------ environment inputs
Tasks == {"log in"}
PageUrl == "https://site/a"
Observations == {[url |-> PageUrl, title |-> "A", interactive_elements |-> 2]}
\* texts of the exceptions raised by the observation fetch and the oracle call
StepErrors ==
  {"Target closed", "BROWSER DISCONNECTED: ws", "Context Destroyed",
   "element not found", "Execution context was destroyed"}
\* texts of the exceptions raised while an attribute of the actuator is called
HandlerErrors == {"Target closed", "unexpected keyword argument"}
NotCallableText == "'BrowserController' object is not callable"
NoSuccessText == "'NoneType' object has no attribute 'success'"
\* the plans the oracle returns: a registered handler, a handler that is not
\* registered, a private helper, a data attribute, a name the actuator lacks
Plan(thought, action, params) ==
  [thought |-> thought, action |-> action, params |-> params]

Plans ==
  {Plan("t1", "click", "p1"), Plan("t2", "go_forward", "p2"),
   Plan("t1", "_find_element", "p1"), Plan("t2", "browser", "p2"),
   Plan("t1", "fly", "p1"),
   Plan("t1", "complete", "p1"), Plan("t2", "complete", "p2")}

\* ---------------------------------------------------------------- strings
LowerChar(c) ==
  CASE c = "A" -> "a" [] c = "B" -> "b" [] c = "C" -> "c" [] c = "D" -> "d"
    [] c = "E" -> "e" [] c = "F" -> "f" [] c = "G" -> "g" [] c = "H" -> "h"
    [] c = "I" -> "i" [] c = "J" -> "j" [] c = "K" -> "k" [] c = "L" -> "l"
    [] c = "M" -> "m" [] c = "N" -> "n" [] c = "O" -> "o" [] c = "P" -> "p"
    [] c = "Q" -> "q" [] c = "R" -> "r" [] c = "S" -> "s" [] c = "T" -> "t"
    [] c = "U" -> "u" [] c = "V" -> "v" [] c = "W" -> "w" [] c = "X" -> "x"
    [] c = "Y" -> "y" [] c = "Z" -> "z" [] OTHER -> c

RECURSIVE Lower(_)
Lower(s) ==
  IF Len(s) = 0 THEN s
  ELSE LowerChar(SubSeq(s, 1, 1)) \o Lower(SubSeq(s, 2, Len(s)))

\* Python's `sub in s`
Contains(s, sub) ==
  \E i \in 1..(Len(s) + 1) :
     /\ i + Len(sub) - 1 <= Len(s)
     /\ SubSeq(s, i, i + Len(sub) - 1) = sub

\* ------------------------------------------------------------ tools.py
ActionResult(success, message) ==
  [kind |-> "ActionResult", success |-> success, message |-> message]

\* what a call returns that is not an ActionResult (_find_element finds nothing)
NoneValue == [kind |-> "None"]

HasSuccess(result) == result.kind = "ActionResult"

\* names registered by ToolRegistry._register_default_tools, in order
DefaultTools ==
  <<"navigate", "go_back", "refresh", "click", "hover", "type", "fill",
    "press_key", "scroll", "scroll_to_element", "wait", "extract", "select",
    "complete">>

Registered(name) == \E i \in 1..Len(DefaultTools) : DefaultTools[i] = name

\* a tool definition; the description and the parameters schema are texts
Tool(name, description, parameters) ==
  [name |-> name, description |-> description, parameters |-> parameters]

Has(registry, name) == \E i \in 1..Len(registry) : registry[i].name = name

\* register that leaves a name it knows as it is
Register_KeepFirst(registry, name, description, parameters) ==
  IF Has(registry, name) THEN registry
  ELSE Append(registry, Tool(name, description, parameters))

\* register that moves a name it knows to the end
Register_MoveToEnd(registry, name, description, parameters) ==
  Append(SelectSeq(registry, LAMBDA tool : tool.name # name),
         Tool(name, description, parameters))

\* register: self._tools[name] = {...}; a dict keeps a key it has where it is
Register(registry, name, description, parameters) ==
  IF Has(registry, name)
  THEN [i \in 1..Len(registry) |->
          IF registry[i].name = name THEN Tool(name, description, parameters)
          ELSE registry[i]]
  ELSE Append(registry, Tool(name, description, parameters))

\* get_schema: list(self._tools.values())
GetSchema(registry) == registry

\* get_tool: self._tools.get(name)
GetTool(registry, name) ==
  IF Has(registry, name)
  THEN registry[CHOOSE i \in 1..Len(registry) : registry[i].name = name]
  ELSE NoneValue

\* list_tools: list(self._tools.keys())
ListTools(registry) == [i \in 1..Len(registry) |-> registry[i].name]

\* the description and the parameters schema a default tool is registered with
DefaultDescription(name) == "what " \o name \o " does"
DefaultParameters(name) == "what " \o name \o " takes"

\* _register_default_tools: one register call per default tool
DefaultRegistrations ==
  [i \in 1..Len(DefaultTools) |->
     <<DefaultTools[i], DefaultDescription(DefaultTools[i]),
       DefaultParameters(DefaultTools[i])>>]

RECURSIVE RegisterEach(_, _)
RegisterEach(registry, registrations) ==
  IF registrations = <<>> THEN registry
  ELSE LET r == Head(registrations)
       IN RegisterEach(Register(registry, r[1], r[2], r[3]), Tail(registrations))

\* ToolRegistry()
NewToolRegistry == RegisterEach(<<>>, DefaultRegistrations)

\* TOOL_SETS with a handler in it that is not a registered tool
ToolSets_WithForward ==
  [navigation |-> <<"navigate", "go_back", "go_forward", "refresh", "scroll">>,
   interaction |-> <<"click", "type", "fill", "press_key", "select", "hover">>,
   observation |-> <<"wait", "extract">>,
   control |-> <<"complete">>]

\* TOOL_SETS; "full" is there with the value None, which get_tool_set
\* treats as it treats a name that is not there
ToolSets ==
  [navigation |-> <<"navigate", "go_back", "refresh", "scroll">>,
   interaction |-> <<"click", "type", "fill", "press_key", "select", "hover">>,
   observation |-> <<"wait", "extract">>,
   control |-> <<"complete">>]

\* get_tool_set
GetToolSet(set_name) ==
  IF set_name \in DOMAIN ToolSets THEN ToolSets[set_name]
  ELSE ListTools(NewToolRegistry)

\* ------------------------------------------------------------ actions.py
\* the public action methods of BrowserActions
\* an actuator whose scroll_to_element handler is missing
ActuatorHandlers_NoScrollToElement ==
  {"navigate", "go_back", "go_forward", "refresh", "click", "hover", "type",
   "fill", "press_key", "scroll", "wait", "extract", "select", "complete"}

ActuatorHandlers ==
  {"navigate", "go_back", "go_forward", "refresh", "click", "hover", "type",
   "fill", "press_key", "scroll", "scroll_to_element", "wait", "extract",
   "select", "complete"}

\* getattr(self.actions, name, None): what the name resolves to
AttrKind(name) ==
  CASE name \in ActuatorHandlers -> "handler"
    [] name = "_find_element" -> "helper"
    [] name = "browser" -> "object"
    [] OTHER -> "absent"

\* ------------------------------------------------------------- agent.py
AgentStates == {"idle", "thinking", "acting", "reflecting", "completed", "failed"}

VARIABLES
  state,          \* BrowserAgent.state
  current_task,   \* BrowserAgent.current_task ("" for None)
  step_history,   \* BrowserAgent.step_history
  max_steps,      \* BrowserAgent.max_steps
  memory,         \* BrowserAgent.memory, a Memory
  tools,          \* BrowserAgent.tools, a ToolRegistry: its _tools, a dict,
                  \* as the sequence of its values in insertion order
  step,           \* run's local `step`
  plan,           \* run's local `plan`
  pc,             \* where run is
  ret,            \* how run ended: not yet, returned a dict, or raised
  env,            \* the call log: what the collaborators were asked and did,
                  \* and the exceptions run's except clause caught; the
                  \* number of run calls and the context the oracle was
                  \* handed last
  call            \* the last call made on a Memory directly: its name, its
                  \* arguments, what it returned or raised, the memory it
                  \* found, what was handed to the two tiers so far, and
                  \* the Memory its argument was exported from (peer);
                  \* or the last call made on the ToolRegistry, with the
                  \* registry it found and every register call made on
                  \* the registry since it was constructed (registered);
                  \* and the number of clear_short_term calls (cleared)
  ,
  pool            \* a BrowserPool: pool_size, _browsers, the _available
                  \* queue, the browsers whose _page is set, and the
                  \* coroutines using it: where each is, the browser it was
                  \* handed, and how many release calls raised

vars == <<state, current_task, step_history, max_steps, memory, tools, step, plan, pc, ret, env, call, pool>>

NoPlan == Plan("", "", "")
NotEnded == [kind |-> "running"]
NoPeer == [kind |-> "none"]
NoContext == [kind |-> "none"]
NoCall == [n |-> 0, op |-> "", args |-> <<>>, ret |-> [kind |-> "none"],
           before |-> [kind |-> "none"], inserted |-> <<>>, promoted |-> <<>>,
           peer |-> NoPeer, registered |-> DefaultRegistrations,
           cleared |-> 0]

\* no BrowserPool was constructed
NoPool == [kind |-> "none"]

Last(q) == q[Len(q)]

\* ------------------------------------------------------------ memory.py
MemoryItem(content, item_type, timestamp, importance, tags) ==
  [content |-> content, item_type |-> item_type, timestamp |-> timestamp,
   importance |-> importance, tags |-> tags]

\* Memory.__init__; importance is in hundredths, clock stands for datetime.now
NewMemory ==
  [short_term_capacity |-> ShortTermCapacity,
   long_term_capacity |-> LongTermCapacity,
   short_term |-> <<>>, long_term |-> <<>>,
   goal |-> "", sub_goals |-> <<>>, actions_history |-> <<>>,
   observations_cache |-> <<>>, errors |-> <<>>, notes |-> <<>>,
   reflections |-> <<>>, semantic_index |-> <<>>, clock |-> 0]

\* a bounded buffer that refuses the new item when it is full
DequeAppend_KeepOldest(q, x, cap) ==
  IF Len(q) >= cap THEN q ELSE Append(q, x)

\* deque(maxlen=cap).append
DequeAppend(q, x, cap) ==
  IF cap = 0 THEN q
  ELSE IF Len(q) >= cap THEN Append(Tail(q), x)
  ELSE Append(q, x)

\* semantic_index[tag].append(pos) for each tag, in order; the index is a
\* sequence of <<tag, offsets>> pairs in first-insertion order
RECURSIVE IndexTags(_, _, _)
IndexTags(idx, tags, pos) ==
  IF tags = <<>> THEN idx
  ELSE LET tag == Head(tags)
           known == \E i \in 1..Len(idx) : idx[i][1] = tag
           idx1 == IF known
                   THEN [i \in 1..Len(idx) |->
                           IF idx[i][1] = tag
                           THEN <<tag, Append(idx[i][2], pos)>> ELSE idx[i]]
                   ELSE Append(idx, <<tag, <<pos>> >>)
       IN IndexTags(idx1, Tail(tags), pos)

\* _add_to_short_term recording one-based positions
AddToShortTerm_OneBased(m, content, item_type, importance, tags) ==
  LET item == MemoryItem(content, item_type, m.clock, importance, tags)
      st == DequeAppend(m.short_term, item, m.short_term_capacity)
  IN [m EXCEPT !.short_term = st,
               !.semantic_index = IndexTags(@, tags, Len(st)),
               !.clock = @ + 1]

AddToShortTerm(m, content, item_type, importance, tags) ==
  LET item == MemoryItem(content, item_type, m.clock, importance, tags)
      st == DequeAppend(m.short_term, item, m.short_term_capacity)
  IN [m EXCEPT !.short_term = st,
               !.semantic_index = IndexTags(@, tags, Len(st) - 1),
               !.clock = @ + 1]

SetGoal(m, goal) ==
  AddToShortTerm([m EXCEPT !.goal = goal], goal, "goal", 100, <<"goal", "task">>)

AddObservation(m, observation) ==
  LET summary == [url |-> observation.url, title |-> observation.title,
                  element_count |-> observation.interactive_elements]
  IN AddToShortTerm(
       [m EXCEPT !.observations_cache = DequeAppend(@, observation, ObservationsCacheLen)],
       summary, "observation", 50, <<"observation", "page">>)

\* add_action keeping only the record of the latest action
AddAction_LatestOnly(m, action, params, result) ==
  LET success == IF HasSuccess(result) THEN result.success ELSE TRUE
      am == [action |-> action, params |-> params, result |-> result,
             success |-> success, timestamp |-> m.clock]
      importance == IF success THEN 70 ELSE 90
  IN AddToShortTerm(
       [m EXCEPT !.actions_history = <<am>>, !.clock = @ + 1],
       [action |-> action, params |-> params, success |-> success],
       "action", importance, <<"action", action>>)

AddAction(m, action, params, result) ==
  LET success == IF HasSuccess(result) THEN result.success ELSE TRUE
      am == [action |-> action, params |-> params, result |-> result,
             success |-> success, timestamp |-> m.clock]
      importance == IF success THEN 70 ELSE 90
  IN AddToShortTerm(
       [m EXCEPT !.actions_history = Append(@, am), !.clock = @ + 1],
       [action |-> action, params |-> params, success |-> success],
       "action", importance, <<"action", action>>)

AddError(m, error) ==
  AddToShortTerm([m EXCEPT !.errors = Append(@, error)], error, "error", 80, <<"error">>)

\* Memory(short_term_capacity, long_term_capacity)
MemoryWith(short_term_capacity, long_term_capacity) ==
  [NewMemory EXCEPT !.short_term_capacity = short_term_capacity,
                    !.long_term_capacity = long_term_capacity]

AddSubGoal(m, sub_goal) ==
  AddToShortTerm([m EXCEPT !.sub_goals = Append(@, sub_goal)],
                 sub_goal, "sub_goal", 80, <<"sub_goal">>)

\* add_note ignoring the importance it is given
AddNote_Default(m, note, importance) ==
  AddToShortTerm([m EXCEPT !.notes = Append(@, note)], note, "note", 60, <<"note">>)

AddNote(m, note, importance) ==
  AddToShortTerm([m EXCEPT !.notes = Append(@, note)], note, "note", importance, <<"note">>)

\* the default of add_note's importance
DefaultNoteImportance == 60

\* a reflection object, and a plain text passed in its place
Reflection(content, is_important) ==
  [kind |-> "Reflection", content |-> content, adjustment |-> NoneValue,
   is_important |-> is_important]
TextReflection(text) == [kind |-> "str", text |-> text]
\* the three shapes of add_reflection's argument
ReflectionShapes == {"flagged", "unflagged", "text"}
ReflectionOf(shape, content) ==
  IF shape = "text" THEN TextReflection(content)
  ELSE Reflection(content, shape = "flagged")

\* list.sort(key=importance): ascending and stable
RECURSIVE InsertAscending(_, _)
InsertAscending(sorted, x) ==
  IF sorted = <<>> THEN <<x>>
  ELSE IF Last(sorted).importance <= x.importance THEN Append(sorted, x)
  ELSE Append(InsertAscending(SubSeq(sorted, 1, Len(sorted) - 1), x), Last(sorted))

RECURSIVE SortByImportance(_)
SortByImportance(items) ==
  IF items = <<>> THEN <<>>
  ELSE InsertAscending(SortByImportance(SubSeq(items, 1, Len(items) - 1)), Last(items))

\* sorted(key=importance, reverse=True): descending, equal items keep their order
RECURSIVE InsertDescending(_, _)
InsertDescending(sorted, x) ==
  IF sorted = <<>> THEN <<x>>
  ELSE IF Last(sorted).importance >= x.importance THEN Append(sorted, x)
  ELSE Append(InsertDescending(SubSeq(sorted, 1, Len(sorted) - 1), x), Last(sorted))

RECURSIVE SortedByImportanceReversed(_)
SortedByImportanceReversed(items) ==
  IF items = <<>> THEN <<>>
  ELSE InsertDescending(SortedByImportanceReversed(SubSeq(items, 1, Len(items) - 1)),
                        Last(items))

\* _promote_to_long_term, lines 291-294: pop(0) on an empty list raises
\* IndexError, which happens exactly when the tier is "full" and empty
PromoteRaises(m) == Len(m.long_term) >= m.long_term_capacity /\ m.long_term = <<>>
PopFromEmptyText == "pop from empty list"

\* _promote_to_long_term comparing only sizes: the tier is never sorted
\* and the oldest item is removed
PromoteToLongTerm_Oldest(m, content, item_type, importance) ==
  LET item == MemoryItem(content, item_type, m.clock, importance, <<>>)
  IN IF PromoteRaises(m) THEN m
     ELSE IF Len(m.long_term) >= m.long_term_capacity
     THEN [m EXCEPT !.long_term = Append(Tail(@), item), !.clock = @ + 1]
     ELSE [m EXCEPT !.long_term = Append(@, item), !.clock = @ + 1]

\* _promote_to_long_term; where it raises, the memory is left as it was
PromoteToLongTerm(m, content, item_type, importance) ==
  LET item == MemoryItem(content, item_type, m.clock, importance, <<>>)
  IN IF PromoteRaises(m) THEN m
     ELSE IF Len(m.long_term) >= m.long_term_capacity
     THEN [m EXCEPT !.long_term = Append(Tail(SortByImportance(@)), item),
                    !.clock = @ + 1]
     ELSE [m EXCEPT !.long_term = Append(@, item), !.clock = @ + 1]

\* add_reflection up to line 146: the reflection is recorded and put into
\* the short-term buffer
ReflectionDict(m, reflection) ==
  [content |-> IF "content" \in DOMAIN reflection THEN reflection.content
               ELSE reflection.text,
   adjustment |-> IF "adjustment" \in DOMAIN reflection THEN reflection.adjustment
                  ELSE NoneValue,
   timestamp |-> m.clock]

RecordReflection(m, reflection) ==
  LET reflection_dict == ReflectionDict(m, reflection)
  IN AddToShortTerm([m EXCEPT !.reflections = Append(@, reflection_dict),
                              !.clock = @ + 1],
                    reflection_dict, "reflection", 85, <<"reflection", "learning">>)

\* getattr(reflection, 'is_important', False)
IsImportant(reflection) ==
  IF "is_important" \in DOMAIN reflection THEN reflection.is_important ELSE FALSE

\* add_reflection raises when its promotion does, after the reflection was
\* recorded
AddReflectionRaises(m, reflection) ==
  IsImportant(reflection) /\ PromoteRaises(RecordReflection(m, reflection))

\* add_reflection promoting every reflection, flagged or not
AddReflection_Always(m, reflection) ==
  PromoteToLongTerm(RecordReflection(m, reflection),
                    ReflectionDict(m, reflection), "reflection", 90)

AddReflection(m, reflection) ==
  LET m1 == RecordReflection(m, reflection)
  IN IF IsImportant(reflection)
     THEN PromoteToLongTerm(m1, ReflectionDict(m, reflection), "reflection", 90)
     ELSE m1

\* clear_short_term that resets everything a run has written
ClearShortTerm_Everything(m) ==
  [m EXCEPT !.short_term = <<>>, !.observations_cache = <<>>,
            !.actions_history = <<>>, !.errors = <<>>, !.sub_goals = <<>>]

ClearShortTerm(m) == [m EXCEPT !.short_term = <<>>, !.observations_cache = <<>>]

\* s[start:] and s[:stop] of Python, for any integer start and stop >= 0
SliceFrom(s, start) ==
  LET n == Len(s)
      i == IF start < 0 THEN (IF n + start < 0 THEN 0 ELSE n + start)
           ELSE (IF start > n THEN n ELSE start)
  IN SubSeq(s, i + 1, n)
SliceTo(s, stop) == SubSeq(s, 1, IF stop > Len(s) THEN Len(s) ELSE stop)

\* get_success_rate; the float is kept as the pair numerator, denominator
Float(num, den) == [kind |-> "float", num |-> num, den |-> den]
\* get_success_rate without its guard for an empty slice: nothing succeeded
\* out of nothing
GetSuccessRate_NoGuard(m, last_n) ==
  LET recent == SliceFrom(m.actions_history, 0 - last_n)
  IN Float(Cardinality({i \in 1..Len(recent) : recent[i].success}), Len(recent))

GetSuccessRate(m, last_n) ==
  LET recent == SliceFrom(m.actions_history, 0 - last_n)
  IN IF recent = <<>> THEN Float(1, 1)
     ELSE Float(Cardinality({i \in 1..Len(recent) : recent[i].success}), Len(recent))

\* str() of the values the context quotes
BoolText(b) == IF b THEN "True" ELSE "False"
StrResult(result) ==
  "ActionResult(success=" \o BoolText(result.success) \o ", message='"
     \o result.message \o "', data=None)"
StrContent(item) ==
  CASE item.item_type = "reflection" ->
         "{'content': '" \o item.content.content
            \o "', 'adjustment': None, 'timestamp': '"
            \o ToString(item.content.timestamp) \o "'}"
    [] item.item_type = "observation" ->
         "{'url': '" \o item.content.url \o "', 'title': '" \o item.content.title
            \o "', 'element_count': " \o ToString(item.content.element_count) \o "}"
    [] item.item_type = "action" ->
         "{'action': '" \o item.content.action \o "', 'params': "
            \o item.content.params \o ", 'success': "
            \o BoolText(item.content.success) \o "}"
    [] OTHER -> item.content

\* get_context: the context it returns and the memory it leaves
ContextOf(m, important_long_term) ==
  [goal |-> m.goal,
   sub_goals |-> m.sub_goals,
   recent_actions |->
     LET recent == SliceFrom(m.actions_history, -5)
     IN [i \in 1..Len(recent) |->
           [action |-> recent[i].action, params |-> recent[i].params,
            success |-> recent[i].success,
            result |-> IF recent[i].result # NoneValue
                       THEN SliceTo(StrResult(recent[i].result), 100)
                       ELSE NoneValue]],
   recent_observations |->
     LET recent == SliceFrom(m.observations_cache, -3)
     IN [i \in 1..Len(recent) |-> [url |-> recent[i].url, title |-> recent[i].title]],
   notes |-> SliceFrom(m.notes, -5),
   reflections |-> SliceFrom(m.reflections, -3),
   errors |-> SliceFrom(m.errors, -3),
   important_memories |->
     [i \in 1..Len(important_long_term) |->
        [type |-> important_long_term[i].item_type,
         content |-> SliceTo(StrContent(important_long_term[i]), 200)]]]

\* get_context sorting the long-term tier in place
GetContext_SortsInPlace(m, max_items) ==
  LET sorted == SortedByImportanceReversed(m.long_term)
  IN [context |-> ContextOf(m, SliceTo(sorted, 3)),
      memory |-> [m EXCEPT !.long_term = sorted]]

\* get_context taking the goal from the goal items of the short-term buffer
GetContext_GoalFromShortTerm(m, max_items) ==
  LET important_long_term == SliceTo(SortedByImportanceReversed(m.long_term), 3)
      goals == SelectSeq(m.short_term, LAMBDA item : item.item_type = "goal")
  IN [context |-> [ContextOf(m, important_long_term) EXCEPT
                     !.goal = IF goals = <<>> THEN "" ELSE Last(goals).content],
      memory |-> m]

\* recent_items (line 195) is computed and not put into the returned dict
GetContext(m, max_items) ==
  LET recent_items == SliceFrom(m.short_term, 0 - max_items)
      important_long_term == SliceTo(SortedByImportanceReversed(m.long_term), 3)
  IN [context |-> ContextOf(m, important_long_term), memory |-> m]

\* search, line 232: the content is lowered, the tags are taken as they are
Matches(item, query_lower) ==
  \/ Contains(Lower(StrContent(item)), query_lower)
  \/ \E i \in 1..Len(item.tags) : Contains(item.tags[i], query_lower)

\* results.sort(key=(importance, timestamp), reverse=True): descending, equal
\* items keep their order
RankedBefore(x, y) ==
  \/ x.importance > y.importance
  \/ x.importance = y.importance /\ x.timestamp >= y.timestamp

RECURSIVE InsertRanked(_, _)
InsertRanked(sorted, x) ==
  IF sorted = <<>> THEN <<x>>
  ELSE IF RankedBefore(Last(sorted), x) THEN Append(sorted, x)
  ELSE Append(InsertRanked(SubSeq(sorted, 1, Len(sorted) - 1), x), Last(sorted))

RECURSIVE SortRanked(_)
SortRanked(items) ==
  IF items = <<>> THEN <<>>
  ELSE InsertRanked(SortRanked(SubSeq(items, 1, Len(items) - 1)), Last(items))

\* the matching items of the short-term buffer, then of the long-term tier
Results(m, query_lower) ==
  SelectSeq(m.short_term, LAMBDA item : Matches(item, query_lower))
    \o SelectSeq(m.long_term, LAMBDA item : Matches(item, query_lower))

\* search comparing the query as it was given
Search_QueryAsGiven(m, query, limit) ==
  SliceTo(SortRanked(Results(m, query)), limit)

\* search, for limit >= 0
Search(m, query, limit) ==
  LET query_lower == Lower(query)
  IN SliceTo(SortRanked(Results(m, query_lower)), limit)

\* datetime.isoformat(): the text of a time
IsoFormat(t) == "T" \o ToString(t)

\* export: the ledger entries are written without their result
Export(m) ==
  [goal |-> m.goal,
   sub_goals |-> m.sub_goals,
   actions_history |->
     [i \in 1..Len(m.actions_history) |->
        [action |-> m.actions_history[i].action,
         params |-> m.actions_history[i].params,
         success |-> m.actions_history[i].success,
         timestamp |-> IsoFormat(m.actions_history[i].timestamp)]],
   notes |-> m.notes,
   reflections |-> m.reflections,
   errors |-> m.errors]

\* dict.get(key, default)
Get(d, key, default) == IF key \in DOMAIN d THEN d[key] ELSE default

\* import_state restoring the ledger as well
ImportState_RestoresLedger(m, st) ==
  [m EXCEPT !.goal = Get(st, "goal", ""),
            !.sub_goals = Get(st, "sub_goals", <<>>),
            !.actions_history = Get(st, "actions_history", <<>>),
            !.notes = Get(st, "notes", <<>>),
            !.reflections = Get(st, "reflections", <<>>),
            !.errors = Get(st, "errors", <<>>)]

\* import_state keeping what it holds where the snapshot has nothing
ImportState_KeepsMissing(m, st) ==
  [m EXCEPT !.goal = Get(st, "goal", @),
            !.sub_goals = Get(st, "sub_goals", @),
            !.notes = Get(st, "notes", @),
            !.reflections = Get(st, "reflections", @),
            !.errors = Get(st, "errors", @)]

\* import_state; "" stands for the goal None
ImportState(m, st) ==
  [m EXCEPT !.goal = Get(st, "goal", ""),
            !.sub_goals = Get(st, "sub_goals", <<>>),
            !.notes = Get(st, "notes", <<>>),
            !.reflections = Get(st, "reflections", <<>>),
            !.errors = Get(st, "errors", <<>>)]

\* ------------------------------------------------------------- agent.py
StepResult(step_number, thought, action, action_params, result) ==
  [step_number |-> step_number, thought |-> thought, action |-> action,
   action_params |-> action_params, result |-> result]

CriticalErrors == {"browser disconnected", "context destroyed", "target closed"}

\* _should_abort matching single words of the vocabulary instead of phrases
ShouldAbort_ByWord(error) ==
  \E w \in {"browser", "disconnected", "context", "destroyed", "target", "closed"} :
     Contains(Lower(error), w)

\* BrowserAgent._should_abort
ShouldAbort(error) == \E err \in CriticalErrors : Contains(Lower(error), err)

\* _create_result reads s.result.success of every entry: it raises
\* AttributeError when an entry's result is not an ActionResult
CreateResultRaises(history) ==
  \E i \in 1..Len(history) : ~HasSuccess(history[i].result)

\* BrowserAgent._create_result, when it returns
CreateResult(success, reason, task, history) ==
  [kind |-> "returned", success |-> success, reason |-> reason, task |-> task,
   steps_taken |-> Len(history), final_url |-> PageUrl,
   history |-> [i \in 1..Len(history) |->
                  [step |-> history[i].step_number,
                   thought |-> history[i].thought,
                   action |-> history[i].action,
                   params |-> history[i].action_params,
                   success |-> history[i].result.success]]]

Raised(error) == [kind |-> "raised", error |-> error]

\* `return self._create_result(...)` where the exception, if any, leaves run
ReturnOrRaise(success, reason) ==
  /\ pc' = "done"
  /\ ret' = IF CreateResultRaises(step_history) THEN Raised(NoSuccessText)
            ELSE CreateResult(success, reason, current_task, step_history)

\* the except clause of run without line 135: the error is logged and
\* tested but never added to memory
ExceptClause_ErrorNotRecorded(e, m, st, ev) ==
  /\ env' = [ev EXCEPT !.caught = Append(@, e)]
  /\ memory' = m
  /\ IF ShouldAbort(e)
     THEN /\ state' = "failed"
          /\ ReturnOrRaise(FALSE, e)
     ELSE /\ state' = st
          /\ pc' = "loop"
          /\ ret' = ret

\* the except clause of run, lines 133-139: m, st and ev are memory, state
\* and the call log as the try body left them
ExceptClause(e, m, st, ev) ==
  /\ env' = [ev EXCEPT !.caught = Append(@, e)]
  /\ memory' = AddError(m, e)
  /\ IF ShouldAbort(e)
     THEN /\ state' = "failed"
          /\ ReturnOrRaise(FALSE, e)
     ELSE /\ state' = st
          /\ pc' = "loop"
          /\ ret' = ret

Init ==
  /\ state = "idle"
  /\ current_task = ""
  /\ step_history = <<>>
  /\ max_steps \in 0..MaxSteps
  /\ memory = NewMemory
  /\ step = 0
  /\ plan = NoPlan
  /\ pc = "idle"
  /\ ret = NotEnded
  /\ env = [runs |-> 0, context |-> NoContext,
            observe_calls |-> 0, plan_calls |-> 0, invoked |-> <<>>,
            sleeps |-> 0, proposed |-> <<>>, raised |-> <<>>,
            handler_raised |-> <<>>, caught |-> <<>>]
  /\ tools = NewToolRegistry
  /\ call = NoCall
  /\ pool = NoPool

\* run(task) up to the loop, lines 81-87
Run(task) ==
  /\ pc = "idle"
  /\ current_task' = task
  /\ state' = "thinking"
  /\ memory' = SetGoal(memory, task)
  /\ step' = 0
  /\ pc' = "loop"
  /\ env' = [env EXCEPT !.runs = @ + 1]
  /\ UNCHANGED <<pool, call, tools, step_history, max_steps, plan, ret>>

\* while step < self.max_steps: step += 1
LoopEnter ==
  /\ pc = "loop"
  /\ step < max_steps
  /\ step' = step + 1
  /\ pc' = "observe"
  /\ UNCHANGED <<pool, call, tools, state, current_task, step_history, max_steps, memory, plan, ret, env>>

\* the loop condition fails, lines 141-144
MaxStepsReached ==
  /\ pc = "loop"
  /\ ~(step < max_steps)
  /\ state' = "failed"
  /\ ReturnOrRaise(FALSE, "Max steps reached")
  /\ UNCHANGED <<pool, call, tools, current_task, step_history, max_steps, memory, step, plan, env>>

\* the observation fetch returns and line 95 is skipped: the oracle is
\* called on an observation the memory never saw
ObserveReturns_NotRecorded(observation) ==
  /\ pc = "observe"
  /\ env' = [env EXCEPT !.observe_calls = @ + 1]
  /\ state' = "thinking"
  /\ pc' = "plan"
  /\ UNCHANGED <<pool, call, tools, current_task, step_history, max_steps, memory, step, plan, ret>>

\* lines 94-98: the observation fetch returns
ObserveReturns(observation) ==
  /\ pc = "observe"
  /\ env' = [env EXCEPT !.observe_calls = @ + 1]
  /\ memory' = AddObservation(memory, observation)
  /\ state' = "thinking"
  /\ pc' = "plan"
  /\ UNCHANGED <<pool, call, tools, current_task, step_history, max_steps, step, plan, ret>>

\* line 94: the observation fetch raises
ObserveRaises(e) ==
  /\ pc = "observe"
  /\ ExceptClause(e, memory, state,
        [env EXCEPT !.observe_calls = @ + 1, !.raised = Append(@, e)])
  /\ UNCHANGED <<pool, call, tools, current_task, step_history, max_steps, step, plan>>

\* lines 99-113: the oracle proposes `complete`
PlanComplete(p) ==
  /\ pc = "plan"
  /\ p.action = "complete"
  /\ plan' = p
  /\ LET ev == [env EXCEPT !.plan_calls = @ + 1, !.context = GetContext(memory, DefaultMaxItems).context, !.proposed = Append(@, p.action)]
     IN IF CreateResultRaises(step_history)
        THEN ExceptClause(NoSuccessText, memory, "completed", ev)
        ELSE /\ env' = ev
             /\ state' = "completed"
             /\ pc' = "done"
             /\ ret' = CreateResult(TRUE, p.thought, current_task, step_history)
             /\ memory' = memory
  /\ UNCHANGED <<pool, call, tools, current_task, step_history, max_steps, step>>

\* lines 99-116: the oracle proposes another action
PlanAction(p) ==
  /\ pc = "plan"
  /\ p.action # "complete"
  /\ env' = [env EXCEPT !.plan_calls = @ + 1, !.context = GetContext(memory, DefaultMaxItems).context, !.proposed = Append(@, p.action)]
  /\ plan' = p
  /\ state' = "acting"
  /\ pc' = "dispatch"
  /\ UNCHANGED <<pool, call, tools, current_task, step_history, max_steps, memory, step, ret>>

\* line 99: the oracle call raises
PlanRaises(e) ==
  /\ pc = "plan"
  /\ ExceptClause(e, memory, state,
        [env EXCEPT !.plan_calls = @ + 1, !.context = GetContext(memory, DefaultMaxItems).context, !.raised = Append(@, e)])
  /\ UNCHANGED <<pool, call, tools, current_task, step_history, max_steps, step, plan>>

\* lines 119-128: record the step
RecordStep(result) ==
  /\ step_history' = Append(step_history,
        StepResult(step, plan.thought, plan.action, plan.params, result))
  /\ memory' = AddAction(memory, plan.action, plan.params, result)
  /\ pc' = "sleep"
  /\ UNCHANGED <<pool, call, tools, state, current_task, max_steps, step, plan, ret>>

\* _execute_action, lines 164-171: the lookup finds nothing
DispatchUnknown ==
  /\ pc = "dispatch"
  /\ AttrKind(plan.action) = "absent"
  /\ env' = env
  /\ RecordStep(ActionResult(FALSE, "Unknown action: " \o plan.action))

\* what a called attribute returns
Returns(kind) ==
  IF kind = "handler"
  THEN {ActionResult(TRUE, "done"), ActionResult(FALSE, "not done")}
  ELSE IF kind = "helper" THEN {NoneValue}
  ELSE {}

\* _execute_action, lines 173-175: the attribute is called and returns
DispatchReturns(result) ==
  /\ pc = "dispatch"
  /\ result \in Returns(AttrKind(plan.action))
  /\ env' = [env EXCEPT !.invoked = Append(@, plan.action)]
  /\ RecordStep(result)

\* _execute_action without its try/except: the exception reaches run's
\* except clause
DispatchRaises_Propagates(e) ==
  /\ pc = "dispatch"
  /\ AttrKind(plan.action) \in {"handler", "helper"}
  /\ e \in HandlerErrors
  /\ ExceptClause(e, memory, state,
        [env EXCEPT !.invoked = Append(@, plan.action),
                    !.handler_raised = Append(@, e)])
  /\ UNCHANGED <<pool, call, tools, current_task, step_history, max_steps, step, plan>>

\* _execute_action, lines 173-181: the attribute is called and raises
DispatchRaises(e) ==
  /\ pc = "dispatch"
  /\ AttrKind(plan.action) \in {"handler", "helper"}
  /\ e \in HandlerErrors
  /\ env' = [env EXCEPT !.invoked = Append(@, plan.action),
                        !.handler_raised = Append(@, e)]
  /\ RecordStep(ActionResult(FALSE, "Action failed: " \o e))

\* _execute_action, lines 173-181: the attribute is not callable
DispatchNotCallable ==
  /\ pc = "dispatch"
  /\ AttrKind(plan.action) = "object"
  /\ env' = env
  /\ RecordStep(ActionResult(FALSE, "Action failed: " \o NotCallableText))

\* a loop that reflects on the step it recorded before the delay
Sleep_Reflects ==
  /\ pc = "sleep"
  /\ env' = [env EXCEPT !.sleeps = @ + 1]
  /\ state' = "reflecting"
  /\ memory' = [memory EXCEPT !.reflections = Append(@, "step recorded")]
  /\ pc' = "loop"
  /\ UNCHANGED <<pool, call, tools, current_task, step_history, max_steps, step, plan, ret>>

\* line 131: the inter-step delay
Sleep ==
  /\ pc = "sleep"
  /\ env' = [env EXCEPT !.sleeps = @ + 1]
  /\ pc' = "loop"
  /\ UNCHANGED <<pool, call, tools, state, current_task, step_history, max_steps, memory, step, plan, ret>>

Next ==
  \/ \E task \in Tasks : Run(task)
  \/ LoopEnter
  \/ MaxStepsReached
  \/ \E observation \in Observations : ObserveReturns(observation)
  \/ \E e \in StepErrors : ObserveRaises(e)
  \/ \E p \in Plans : PlanComplete(p)
  \/ \E p \in Plans : PlanAction(p)
  \/ \E e \in StepErrors : PlanRaises(e)
  \/ DispatchUnknown
  \/ \E result \in {ActionResult(TRUE, "done"), ActionResult(FALSE, "not done"), NoneValue} :
        DispatchReturns(result)
  \/ \E e \in HandlerErrors : DispatchRaises(e)
  \/ DispatchNotCallable
  \/ Sleep

Spec == Init /\ [][Next]_vars

\* the delay of line 131 returns and the loop head is evaluated: a run that
\* can go on to its next iteration does
SpecFair == Spec /\ WF_vars(Sleep) /\ WF_vars(LoopEnter)

\* ------------------------------------ the dispatch of every action name
\* the names the oracle may propose: every default tool but complete, a
\* handler that is not registered, a helper, a data attribute, an absent name
ProposedActions ==
  ({DefaultTools[i] : i \in 1..Len(DefaultTools)} \ {"complete"})
     \cup {"go_forward", "_find_element", "browser", "fly"}

\* the first iteration of a run, after the oracle has proposed an action
InitDispatch ==
  /\ state = "acting"
  /\ current_task \in Tasks
  /\ step_history = <<>>
  /\ max_steps \in 1..MaxSteps
  /\ \E observation \in Observations :
        memory = AddObservation(SetGoal(NewMemory, current_task), observation)
  /\ step = 1
  /\ \E action \in ProposedActions : \E thought \in {"t1"} : \E params \in {"p1", "p2"} :
        plan = Plan(thought, action, params)
  /\ pc = "dispatch"
  /\ ret = NotEnded
  /\ env = [runs |-> 1, context |-> GetContext(memory, DefaultMaxItems).context,
            observe_calls |-> 1, plan_calls |-> 1, invoked |-> <<>>,
            sleeps |-> 0, proposed |-> <<plan.action>>, raised |-> <<>>,
            handler_raised |-> <<>>, caught |-> <<>>]
  /\ tools = NewToolRegistry
  /\ call = NoCall
  /\ pool = NoPool

NextDispatch ==
  \/ DispatchUnknown
  \/ \E result \in {ActionResult(TRUE, "done"), ActionResult(FALSE, "not done"), NoneValue} :
        DispatchReturns(result)
  \/ \E e \in HandlerErrors : DispatchRaises(e)
  \/ DispatchNotCallable
  \/ Sleep

SpecDispatch == InitDispatch /\ [][NextDispatch]_vars

\* ------------------------------- a run that outlasts the short-term buffer
\* BrowserAgent(browser, max_steps=MaxLongSteps): the oracle proposes one
\* action or complete, the handler returns one result, and at most
\* MaxLongErrors exceptions are raised by the observation fetch or the oracle
InitLong ==
  /\ state = "idle"
  /\ current_task = ""
  /\ step_history = <<>>
  /\ max_steps = MaxLongSteps
  /\ memory = NewMemory
  /\ step = 0
  /\ plan = NoPlan
  /\ pc = "idle"
  /\ ret = NotEnded
  /\ env = [runs |-> 0, context |-> NoContext,
            observe_calls |-> 0, plan_calls |-> 0, invoked |-> <<>>,
            sleeps |-> 0, proposed |-> <<>>, raised |-> <<>>,
            handler_raised |-> <<>>, caught |-> <<>>]
  /\ tools = NewToolRegistry
  /\ call = NoCall
  /\ pool = NoPool

LongErrors == {"element not found", "Target closed"}

NextLong ==
  \/ \E task \in Tasks : Run(task)
  \/ LoopEnter
  \/ MaxStepsReached
  \/ \E observation \in Observations : ObserveReturns(observation)
  \/ \E e \in LongErrors : Len(env.caught) < MaxLongErrors /\ ObserveRaises(e)
  \/ PlanComplete(Plan("t1", "complete", "p1"))
  \/ PlanAction(Plan("t1", "click", "p1"))
  \/ \E e \in LongErrors : Len(env.caught) < MaxLongErrors /\ PlanRaises(e)
  \/ DispatchReturns(ActionResult(TRUE, "done"))
  \/ Sleep

SpecLong == InitLong /\ [][NextLong]_vars

\* ---------------------------------------------- playwright.py, BrowserPool
Clients == 1..MaxClients

\* BrowserPool.__init__; browsers are numbered in the order initialize
\* creates them
BrowserPool(pool_size) ==
  [kind |-> "pool", pool_size |-> pool_size, browsers |-> <<>>,
   available |-> <<>>, page |-> {}, initialized |-> FALSE,
   client |-> [c \in Clients |-> [pc |-> "idle", browser |-> 0]],
   failed |-> 0]

InitPool ==
  /\ state = "idle"
  /\ current_task = ""
  /\ step_history = <<>>
  /\ max_steps = MaxSteps
  /\ memory = NewMemory
  /\ step = 0
  /\ plan = NoPlan
  /\ pc = "idle"
  /\ ret = NotEnded
  /\ env = [runs |-> 0, context |-> NoContext,
            observe_calls |-> 0, plan_calls |-> 0, invoked |-> <<>>,
            sleeps |-> 0, proposed |-> <<>>, raised |-> <<>>,
            handler_raised |-> <<>>, caught |-> <<>>]
  /\ tools = NewToolRegistry
  /\ call = NoCall
  /\ \E pool_size \in 1..MaxPool : pool = BrowserPool(pool_size)

NotPool ==
  <<state, current_task, step_history, max_steps, memory, tools, step, plan, pc, ret, env, call>>

\* initialize, called once: every browser is started and put into the queue
Initialize ==
  /\ ~pool.initialized
  /\ pool' = [pool EXCEPT
                !.initialized = TRUE,
                !.browsers = [i \in 1..pool.pool_size |-> i],
                !.available = @ \o [i \in 1..pool.pool_size |-> i],
                !.page = 1..pool.pool_size]
  /\ UNCHANGED NotPool

\* acquire handing out the head of the queue without taking it off
AcquireCall_Peek(c) ==
  /\ pool.client[c].pc = "idle"
  /\ pool' = IF pool.available # <<>>
             THEN [pool EXCEPT !.client[c] = [pc |-> "holding", browser |-> Head(pool.available)]]
             ELSE [pool EXCEPT !.client[c].pc = "waiting"]
  /\ UNCHANGED NotPool

\* acquire: Queue.get returns the head at once when the queue is not empty
\* and suspends the caller when it is
AcquireCall(c) ==
  /\ pool.client[c].pc = "idle"
  /\ pool' = IF pool.available # <<>>
             THEN [pool EXCEPT !.client[c] = [pc |-> "holding", browser |-> Head(pool.available)],
                               !.available = Tail(@)]
             ELSE [pool EXCEPT !.client[c].pc = "waiting"]
  /\ UNCHANGED NotPool

\* a suspended Queue.get is resumed: it takes the head if there is one
AcquireResume(c) ==
  /\ pool.client[c].pc = "waiting"
  /\ pool.available # <<>>
  /\ pool' = [pool EXCEPT !.client[c] = [pc |-> "holding", browser |-> Head(pool.available)],
                          !.available = Tail(@)]
  /\ UNCHANGED NotPool

\* release(browser) by the coroutine that holds it, up to the await of
\* navigate("about:blank")
ReleaseCall(c) ==
  /\ pool.client[c].pc = "holding"
  /\ pool' = [pool EXCEPT !.client[c].pc = "releasing"]
  /\ UNCHANGED NotPool

\* navigate returns: the browser is put back
NavigateReturns(c) ==
  /\ pool.client[c].pc = "releasing"
  /\ pool.client[c].browser \in pool.page
  /\ pool' = [pool EXCEPT !.available = Append(@, pool.client[c].browser),
                          !.client[c] = [pc |-> "idle", browser |-> 0]]
  /\ UNCHANGED NotPool

\* navigate raises (RuntimeError when _page is None, or what goto raised):
\* release is left before the put
NavigateRaises(c) ==
  /\ pool.client[c].pc = "releasing"
  /\ pool' = [pool EXCEPT !.failed = @ + 1,
                          !.client[c] = [pc |-> "idle", browser |-> 0]]
  /\ UNCHANGED NotPool

\* close_all: every browser of _browsers is closed and the list is cleared;
\* the queue is left as it is
CloseAll ==
  /\ pool.browsers # <<>>
  /\ pool' = [pool EXCEPT !.page = {}, !.browsers = <<>>]
  /\ UNCHANGED NotPool

NextPool ==
  \/ Initialize
  \/ \E c \in Clients : AcquireCall(c)
  \/ \E c \in Clients : AcquireResume(c)
  \/ \E c \in Clients : ReleaseCall(c)
  \/ \E c \in Clients : NavigateReturns(c)
  \/ \E c \in Clients : NavigateRaises(c)
  \/ CloseAll

SpecPool == InitPool /\ [][NextPool]_vars

\* --------------------------------------------- an agent that is run again
InitRerun ==
  /\ state = "idle"
  /\ current_task = ""
  /\ step_history = <<>>
  /\ max_steps \in 0..MaxRerunSteps
  /\ memory = NewMemory
  /\ step = 0
  /\ plan = NoPlan
  /\ pc = "idle"
  /\ ret = NotEnded
  /\ env = [runs |-> 0, context |-> NoContext,
            observe_calls |-> 0, plan_calls |-> 0, invoked |-> <<>>,
            sleeps |-> 0, proposed |-> <<>>, raised |-> <<>>,
            handler_raised |-> <<>>, caught |-> <<>>]
  /\ tools = NewToolRegistry
  /\ call = NoCall
  /\ pool = NoPool

LaterTasks == {"log out"}

\* run(task), lines 81-87, called on an agent whose earlier run has ended
RunAgain(task) ==
  /\ pc = "done"
  /\ env.runs < MaxRuns
  /\ current_task' = task
  /\ state' = "thinking"
  /\ memory' = SetGoal(memory, task)
  /\ step' = 0
  /\ pc' = "loop"
  /\ ret' = NotEnded
  /\ env' = [env EXCEPT !.runs = @ + 1]
  /\ UNCHANGED <<pool, call, tools, step_history, max_steps, plan>>

NextRerun ==
  \/ Next
  \/ \E task \in LaterTasks : RunAgain(task)

SpecRerun == InitRerun /\ [][NextRerun]_vars

\* a Memory of the default capacities that was used for an earlier task
UsedMemory ==
  LET m1 == AddSubGoal(SetGoal(NewMemory, "earlier task"), "earlier sub")
      m2 == AddAction(m1, "scroll", "p0", ActionResult(TRUE, "done"))
      m3 == AddNote(m2, "earlier note", DefaultNoteImportance)
      m4 == AddReflection(m3, Reflection("earlier lesson", TRUE))
  IN AddError(m4, "earlier error")

\* ------------------------------------------- a Memory used on its own
\* a Memory of any small capacities, called directly; the agent around it
\* stays as constructed
InitMemory ==
  /\ state = "idle"
  /\ current_task = ""
  /\ step_history = <<>>
  /\ max_steps = MaxSteps
  /\ step = 0
  /\ plan = NoPlan
  /\ pc = "idle"
  /\ ret = NotEnded
  /\ env = [runs |-> 0, context |-> NoContext,
            observe_calls |-> 0, plan_calls |-> 0, invoked |-> <<>>,
            sleeps |-> 0, proposed |-> <<>>, raised |-> <<>>,
            handler_raised |-> <<>>, caught |-> <<>>]
  /\ \E stc \in 0..MaxShortTerm, ltc \in 0..MaxLongTerm : memory = MemoryWith(stc, ltc)
  /\ tools = NewToolRegistry
  /\ call = NoCall
  /\ pool = NoPool

Agent == <<state, current_task, step_history, max_steps, tools, step, plan, pc, ret, env, pool>>

\* the n-th argument of its kind
Nth(prefix) == prefix \o ToString(call.n + 1)

NoneReturned == [kind |-> "returned", value |-> NoneValue]

\* one call: what it was, what it did to the memory, what it handed to the
\* short-term buffer (a <<type, content, importance>> triple) and to the
\* long-term tier (a <<content, importance>> pair)
Called(op, args, m, raises, inserted, promoted) ==
  /\ memory' = m
  /\ call' = [n |-> call.n + 1, op |-> op, args |-> args,
              ret |-> IF raises THEN Raised(PopFromEmptyText) ELSE NoneReturned,
              before |-> memory,
              inserted |-> call.inserted \o inserted,
              promoted |-> call.promoted \o promoted,
              peer |-> NoPeer, registered |-> call.registered,
              cleared |-> call.cleared]
  /\ UNCHANGED Agent

CallSetGoal(goal) ==
  /\ call.n < MaxCalls
  /\ Called("set_goal", <<goal>>, SetGoal(memory, goal), FALSE,
            << <<"goal", goal, 100>> >>, <<>>)

CallAddSubGoal ==
  /\ call.n < MaxCalls
  /\ LET sub_goal == Nth("sub")
     IN Called("add_sub_goal", <<sub_goal>>, AddSubGoal(memory, sub_goal), FALSE,
               << <<"sub_goal", sub_goal, 80>> >>, <<>>)

CallAddObservation(observation) ==
  /\ call.n < MaxCalls
  /\ Called("add_observation", <<observation>>, AddObservation(memory, observation), FALSE,
            << <<"observation",
                 [url |-> observation.url, title |-> observation.title,
                  element_count |-> observation.interactive_elements], 50>> >>, <<>>)

CallAddAction(result) ==
  /\ call.n < MaxCalls
  /\ LET params == Nth("p")
     IN Called("add_action", <<"click", params, result>>,
               AddAction(memory, "click", params, result), FALSE,
               << <<"action", [action |-> "click", params |-> params,
                               success |-> result.success],
                    IF result.success THEN 70 ELSE 90>> >>, <<>>)

CallAddReflection(shape) ==
  /\ call.n < MaxCalls
  /\ LET reflection == ReflectionOf(shape, Nth("lesson"))
         reflection_dict == ReflectionDict(memory, reflection)
     IN Called("add_reflection", <<reflection>>, AddReflection(memory, reflection),
               AddReflectionRaises(memory, reflection),
               << <<"reflection", reflection_dict, 85>> >>,
               IF IsImportant(reflection) THEN << <<reflection_dict, 90>> >> ELSE <<>>)

CallAddError ==
  /\ call.n < MaxCalls
  /\ LET error == Nth("error")
     IN Called("add_error", <<error>>, AddError(memory, error), FALSE,
               << <<"error", error, 80>> >>, <<>>)

CallAddNote(importance) ==
  /\ call.n < MaxCalls
  /\ LET note == Nth("note")
     IN Called("add_note", <<note, importance>>, AddNote(memory, note, importance), FALSE,
               << <<"note", note, importance>> >>, <<>>)

\* _promote_to_long_term called as add_reflection calls it, with any importance
CallPromote(importance) ==
  /\ call.n < MaxCalls
  /\ LET content == ReflectionDict(memory, TextReflection(Nth("lesson")))
     IN Called("_promote_to_long_term", <<content, "reflection", importance>>,
               PromoteToLongTerm(memory, content, "reflection", importance),
               PromoteRaises(memory), <<>>, << <<content, importance>> >>)

\* import_state of what another Memory, one that was used, exports
CallImportExported ==
  /\ call.n < MaxCalls
  /\ memory' = ImportState(memory, Export(UsedMemory))
  /\ call' = [call EXCEPT !.n = @ + 1, !.op = "import_state",
                          !.args = <<Export(UsedMemory)>>, !.ret = NoneReturned,
                          !.before = memory, !.peer = UsedMemory]
  /\ UNCHANGED Agent

\* clear_short_term also starts the record of what was handed to the
\* short-term buffer afresh
CallClearShortTerm ==
  /\ call.n < MaxCalls
  /\ memory' = ClearShortTerm(memory)
  /\ call' = [call EXCEPT !.n = @ + 1, !.op = "clear_short_term", !.args = <<>>,
                          !.ret = NoneReturned, !.before = memory,
                          !.inserted = <<>>, !.cleared = @ + 1]
  /\ UNCHANGED Agent

NextMemory ==
  \/ \E goal \in Tasks : CallSetGoal(goal)
  \/ CallAddSubGoal
  \/ \E observation \in Observations : CallAddObservation(observation)
  \/ \E result \in {ActionResult(TRUE, "done"), ActionResult(FALSE, "not done")} :
        CallAddAction(result)
  \/ \E shape \in ReflectionShapes : CallAddReflection(shape)
  \/ CallAddError
  \/ \E importance \in {DefaultNoteImportance, 30} : CallAddNote(importance)
  \/ \E importance \in {50, 90} : CallPromote(importance)
  \/ CallClearShortTerm
  \/ CallImportExported

SpecMemory == InitMemory /\ [][NextMemory]_vars

\* --------------------------------------- queries on a prepared Memory
NthSubGoal(m, i) == AddSubGoal(m, "sub" \o ToString(i))
NthObservation(m, i) ==
  AddObservation(m, [url |-> PageUrl \o ToString(i), title |-> "A" \o ToString(i),
                     interactive_elements |-> i])
\* every second action fails and every third returns None
NthAction(m, i) ==
  AddAction(m, "click", "p" \o ToString(i),
            IF i % 3 = 0 THEN NoneValue
            ELSE IF i % 2 = 0 THEN ActionResult(FALSE, "not done")
            ELSE ActionResult(TRUE, "done"))
NthNote(m, i) == AddNote(m, "note" \o ToString(i), DefaultNoteImportance)
NthReflection(m, i) ==
  AddReflection(m, ReflectionOf(IF i % 2 = 0 THEN "text" ELSE "unflagged",
                                "lesson" \o ToString(i)))
NthError(m, i) == AddError(m, "error" \o ToString(i))
NthPromotion(m, i) ==
  PromoteToLongTerm(m, ReflectionDict(m, TextReflection("pattern" \o ToString(i))),
                    "reflection", <<50, 90, 70, 90, 30>>[((i - 1) % 5) + 1])

\* every second action fails and has the name the oracle spelt with a capital
NthActionAsSpelt(m, i) ==
  IF i % 2 = 0
  THEN AddAction(m, "Click", "p" \o ToString(i), ActionResult(FALSE, "Unknown action: Click"))
  ELSE AddAction(m, "click", "p" \o ToString(i), ActionResult(TRUE, "done"))
NthFlaggedReflection(m, i) ==
  AddReflection(m, Reflection("lesson" \o ToString(i), TRUE))

\* the i-th call of a method
NthCall(op, m, i) ==
  CASE op = "add_sub_goal" -> NthSubGoal(m, i)
    [] op = "add_observation" -> NthObservation(m, i)
    [] op = "add_action" -> NthAction(m, i)
    [] op = "add_note" -> NthNote(m, i)
    [] op = "add_reflection" -> NthReflection(m, i)
    [] op = "add_error" -> NthError(m, i)
    [] op = "_promote_to_long_term" -> NthPromotion(m, i)
    [] op = "add_action as spelt" -> NthActionAsSpelt(m, i)
    [] op = "add_reflection flagged" -> NthFlaggedReflection(m, i)

\* the first n calls of a method, made on m
RECURSIVE Times(_, _, _)
Times(op, m, n) == IF n = 0 THEN m ELSE NthCall(op, Times(op, m, n - 1), n)

\* a Memory of the default capacities after set_goal and some numbers of
\* add_sub_goal, add_observation, add_action, add_note, add_reflection,
\* add_error and _promote_to_long_term calls, made in that order
InitContext ==
  /\ state = "idle"
  /\ current_task = ""
  /\ step_history = <<>>
  /\ max_steps = MaxSteps
  /\ step = 0
  /\ plan = NoPlan
  /\ pc = "idle"
  /\ ret = NotEnded
  /\ env = [runs |-> 0, context |-> NoContext,
            observe_calls |-> 0, plan_calls |-> 0, invoked |-> <<>>,
            sleeps |-> 0, proposed |-> <<>>, raised |-> <<>>,
            handler_raised |-> <<>>, caught |-> <<>>]
  /\ \E sub_goals \in 0..MaxSubGoals, actions \in 0..MaxLedger,
        notes \in 0..MaxLedger, recent \in 0..MaxRecent :
      \E m1 \in {Times("add_sub_goal", SetGoal(NewMemory, "log in"), sub_goals)} :
      \E m2 \in {Times("add_observation", m1, recent)} :
      \E m3 \in {Times("add_action", m2, actions)} :
      \E m4 \in {Times("add_note", m3, notes)} :
      \E m5 \in {Times("add_reflection", m4, recent)} :
      \E m6 \in {Times("add_error", m5, recent)} :
        memory = Times("_promote_to_long_term", m6, recent)
  /\ tools = NewToolRegistry
  /\ call = NoCall
  /\ pool = NoPool

\* the arguments tried
MaxItemsArgs == {0, 2, 10}
LastNArgs == {-1, 0, 1, 3, 10}

CallGetContext(max_items) ==
  /\ call.n < MaxQueries
  /\ memory' = GetContext(memory, max_items).memory
  /\ call' = [call EXCEPT !.n = @ + 1, !.op = "get_context", !.args = <<max_items>>,
                          !.before = memory,
                          !.ret = [kind |-> "returned",
                                   value |-> GetContext(memory, max_items).context]]
  /\ UNCHANGED Agent

CallGetSuccessRate(last_n) ==
  /\ call.n < MaxQueries
  /\ memory' = memory
  /\ call' = [call EXCEPT !.n = @ + 1, !.op = "get_success_rate", !.args = <<last_n>>,
                          !.before = memory,
                          !.ret = [kind |-> "returned",
                                   value |-> GetSuccessRate(memory, last_n)]]
  /\ UNCHANGED Agent

NextContext ==
  \/ \E max_items \in MaxItemsArgs : CallGetContext(max_items)
  \/ \E last_n \in LastNArgs : CallGetSuccessRate(last_n)

SpecContext == InitContext /\ [][NextContext]_vars

\* ---------------------------------------- searches of a prepared Memory
\* a Memory of the default capacities after set_goal and some numbers of
\* add_action, add_reflection (flagged) and _promote_to_long_term calls
InitSearch ==
  /\ state = "idle"
  /\ current_task = ""
  /\ step_history = <<>>
  /\ max_steps = MaxSteps
  /\ step = 0
  /\ plan = NoPlan
  /\ pc = "idle"
  /\ ret = NotEnded
  /\ env = [runs |-> 0, context |-> NoContext,
            observe_calls |-> 0, plan_calls |-> 0, invoked |-> <<>>,
            sleeps |-> 0, proposed |-> <<>>, raised |-> <<>>,
            handler_raised |-> <<>>, caught |-> <<>>]
  /\ \E actions \in 0..MaxSearched, reflections \in 0..MaxSearched,
        promotions \in 0..MaxSearched :
      \E m1 \in {Times("add_action as spelt", SetGoal(NewMemory, "log in"), actions)} :
      \E m2 \in {Times("add_reflection flagged", m1, reflections)} :
        memory = Times("_promote_to_long_term", m2, promotions)
  /\ tools = NewToolRegistry
  /\ call = NoCall
  /\ pool = NoPool

\* the arguments of search that are tried
Queries == {"LOG", "Content", "Click", "Task", "fly"}
Limits == {0, 2, 5}

CallSearch(query, limit) ==
  /\ call.n < MaxQueries
  /\ memory' = memory
  /\ call' = [call EXCEPT !.n = @ + 1, !.op = "search", !.args = <<query, limit>>,
                          !.before = memory,
                          !.ret = [kind |-> "returned",
                                   value |-> Search(memory, query, limit)]]
  /\ UNCHANGED Agent

NextSearch == \E query \in Queries, limit \in Limits : CallSearch(query, limit)

SpecSearch == InitSearch /\ [][NextSearch]_vars

\* ------------------------------- a Memory exported and imported again
\* a Memory of the default capacities, with a goal or without, after some
\* numbers of add_sub_goal, add_action, add_note, add_reflection and
\* add_error calls
InitPersist ==
  /\ state = "idle"
  /\ current_task = ""
  /\ step_history = <<>>
  /\ max_steps = MaxSteps
  /\ step = 0
  /\ plan = NoPlan
  /\ pc = "idle"
  /\ ret = NotEnded
  /\ env = [runs |-> 0, context |-> NoContext,
            observe_calls |-> 0, plan_calls |-> 0, invoked |-> <<>>,
            sleeps |-> 0, proposed |-> <<>>, raised |-> <<>>,
            handler_raised |-> <<>>, caught |-> <<>>]
  /\ \E m0 \in {NewMemory, SetGoal(NewMemory, "log in")},
        sub_goals \in 0..MaxSubGoals, written \in 0..MaxKept, learnt \in 0..MaxKept :
      \E m1 \in {Times("add_sub_goal", m0, sub_goals)} :
      \E m2 \in {Times("add_action", m1, learnt)} :
      \E m3 \in {Times("add_note", m2, written)} :
      \E m4 \in {Times("add_reflection flagged", m3, learnt)} :
        memory = Times("add_error", m4, written)
  /\ tools = NewToolRegistry
  /\ call = NoCall
  /\ pool = NoPool

\* the Memory a snapshot is imported into: a new one, or one that was used
Receivers == {NewMemory, UsedMemory}

\* the keys a snapshot is stripped of before it is read back
SnapshotKeys == {"goal", "sub_goals", "actions_history", "notes", "reflections", "errors"}
Stripped == {{}, {"goal"}, {"sub_goals", "notes"}, {"reflections", "errors"}, SnapshotKeys}
Without(st, keys) == [k \in (DOMAIN st) \ keys |-> st[k]]

CallExport ==
  /\ call.n < MaxCalls
  /\ memory' = memory
  /\ call' = [call EXCEPT !.n = @ + 1, !.op = "export", !.args = <<>>,
                          !.before = memory, !.peer = NoPeer,
                          !.ret = [kind |-> "returned", value |-> Export(memory)]]
  /\ UNCHANGED Agent

\* receiver.import_state(snapshot), the snapshot being what the last call,
\* memory.export(), returned, less some keys; the receiver is the Memory
\* looked at from here on
CallImportState(receiver, keys) ==
  /\ call.n < MaxCalls
  /\ call.op = "export"
  /\ LET st == Without(call.ret.value, keys)
     IN /\ memory' = ImportState(receiver, st)
        /\ call' = [call EXCEPT !.n = @ + 1, !.op = "import_state", !.args = <<st>>,
                                !.before = receiver, !.peer = memory,
                                !.ret = NoneReturned]
  /\ UNCHANGED Agent

NextPersist ==
  \/ CallExport
  \/ \E receiver \in Receivers, keys \in Stripped : CallImportState(receiver, keys)

SpecPersist == InitPersist /\ [][NextPersist]_vars

\* ------------------------------------------ a ToolRegistry used on its own
\* the agent as constructed; its registry is called directly
InitTools ==
  /\ state = "idle"
  /\ current_task = ""
  /\ step_history = <<>>
  /\ max_steps = MaxSteps
  /\ memory = NewMemory
  /\ step = 0
  /\ plan = NoPlan
  /\ pc = "idle"
  /\ ret = NotEnded
  /\ env = [runs |-> 0, context |-> NoContext,
            observe_calls |-> 0, plan_calls |-> 0, invoked |-> <<>>,
            sleeps |-> 0, proposed |-> <<>>, raised |-> <<>>,
            handler_raised |-> <<>>, caught |-> <<>>]
  /\ tools = NewToolRegistry
  /\ call = NoCall
  /\ pool = NoPool

AgentAndMemory ==
  <<state, current_task, step_history, max_steps, memory, step, plan, pc, ret, env, pool>>

\* the arguments tried: a default tool and two new ones, the description
\* the default tool has and another one
ToolNames == {"click", "upload", "download"}
Descriptions == {DefaultDescription("click"), "another description"}
SetNames == {"navigation", "interaction", "observation", "control", "full"}

CallRegister(name, description) ==
  /\ call.n < MaxCalls
  /\ tools' = Register(tools, name, description, DefaultParameters("click"))
  /\ call' = [call EXCEPT !.n = @ + 1, !.op = "register",
                          !.args = <<name, description, DefaultParameters("click")>>,
                          !.before = tools, !.ret = NoneReturned,
                          !.registered = Append(@, <<name, description,
                                                     DefaultParameters("click")>>)]
  /\ UNCHANGED AgentAndMemory

CallGetTool(name) ==
  /\ call.n < MaxCalls
  /\ tools' = tools
  /\ call' = [call EXCEPT !.n = @ + 1, !.op = "get_tool", !.args = <<name>>,
                          !.before = tools,
                          !.ret = [kind |-> "returned", value |-> GetTool(tools, name)]]
  /\ UNCHANGED AgentAndMemory

CallGetSchema ==
  /\ call.n < MaxCalls
  /\ tools' = tools
  /\ call' = [call EXCEPT !.n = @ + 1, !.op = "get_schema", !.args = <<>>,
                          !.before = tools,
                          !.ret = [kind |-> "returned", value |-> GetSchema(tools)]]
  /\ UNCHANGED AgentAndMemory

CallGetToolSet(set_name) ==
  /\ call.n < MaxCalls
  /\ tools' = tools
  /\ call' = [call EXCEPT !.n = @ + 1, !.op = "get_tool_set", !.args = <<set_name>>,
                          !.before = tools,
                          !.ret = [kind |-> "returned", value |-> GetToolSet(set_name)]]
  /\ UNCHANGED AgentAndMemory

NextTools ==
  \/ \E name \in ToolNames, description \in Descriptions : CallRegister(name, description)
  \/ \E name \in ToolNames \cup {"fly"} : CallGetTool(name)
  \/ CallGetSchema
  \/ \E set_name \in SetNames : CallGetToolSet(set_name)

SpecTools == InitTools /\ [][NextTools]_vars

\* ------------------------------------------------------------ planner.py
\* the Plan dataclass with all its fields; confidence is in hundredths
FullPlan(thought, action, params, confidence, alternatives) ==
  [kind |-> "Plan", thought |-> thought, action |-> action, params |-> params,
   confidence |-> confidence, alternatives |-> alternatives]

\* Python's `a or b` on texts; "" also stands for None
Or(a, b) == IF a # "" THEN a ELSE b

JsonErrorText == "Expecting value: line 1 column 1 (char 0)"

\* Planner.plan from line 83 on: what it makes of the message the oracle
\* answered with.  The arguments of a tool call are a JSON text: one that
\* json.loads turns into a dict, or one it raises on
PlannerPlan(message) ==
  IF message.tool_calls # <<>>
  THEN LET tool_call == message.tool_calls[1]
           action == tool_call.name
       IN IF ~tool_call.arguments.valid THEN Raised(JsonErrorText)
          ELSE LET loaded == tool_call.arguments.dict
                   thought == Or(Or(Get(loaded, "thought", ""), message.content),
                                 "Proceeding with action")
                   confidence == Get(loaded, "confidence", 80)
                   params == Without(loaded, {"thought", "confidence"})
               IN [kind |-> "returned",
                   value |-> FullPlan(thought, action, params, confidence, <<>>)]
  ELSE [kind |-> "returned",
        value |-> FullPlan(Or(message.content, "Unable to determine action"),
                           "wait", [duration |-> 1], 50, <<>>)]

\* ------------------------------------------------ a Planner asked directly
\* the agent as constructed; its planner receives the oracle's answers
InitPlanner == InitTools

\* the arguments of a tool call as the oracle writes them: a selector, and
\* a thought and a confidence where it gives them
Arguments(given, thought, confidence) ==
  [key \in {"selector"} \cup given |->
     CASE key = "selector" -> "#a"
       [] key = "thought" -> thought
       [] key = "confidence" -> confidence]

Contents == {"", "the page shows a form"}
Thoughts == {"", "press the button"}
Confidences == {-20, 30, 100, 150}

Planned(message) ==
  /\ call' = [call EXCEPT !.n = @ + 1, !.op = "plan", !.args = <<message>>,
                          !.before = NoPeer, !.ret = PlannerPlan(message)]
  /\ UNCHANGED <<AgentAndMemory, tools>>

CallPlanToolCall(name, given, thought, confidence, content) ==
  /\ call.n < MaxCalls
  /\ Planned([content |-> content,
              tool_calls |-> <<[name |-> name,
                                arguments |-> [valid |-> TRUE,
                                               dict |-> Arguments(given, thought,
                                                                  confidence)]]>>])

CallPlanBadArguments(content) ==
  /\ call.n < MaxCalls
  /\ Planned([content |-> content,
              tool_calls |-> <<[name |-> "click", arguments |-> [valid |-> FALSE]]>>])

CallPlanNoToolCall(content) ==
  /\ call.n < MaxCalls
  /\ Planned([content |-> content, tool_calls |-> <<>>])

NextPlanner ==
  \/ \E name \in {"click", "fly"}, given \in SUBSET {"thought", "confidence"},
        thought \in Thoughts, confidence \in Confidences, content \in Contents :
        CallPlanToolCall(name, given, thought, confidence, content)
  \/ \E content \in Contents : CallPlanBadArguments(content)
  \/ \E content \in Contents : CallPlanNoToolCall(content)

SpecPlanner == InitPlanner /\ [][NextPlanner]_vars

\* ------------------------------------------------------------- properties

\* the text contains one of the three critical phrases, in any letter case
HasCriticalPhrase(text) ==
  \/ Contains(Lower(text), "browser disconnected")
  \/ Contains(Lower(text), "context destroyed")
  \/ Contains(Lower(text), "target closed")

NeverProposedComplete == \A i \in 1..Len(env.proposed) : env.proposed[i] # "complete"

NoCriticalRaised == \A i \in 1..Len(env.raised) : ~HasCriticalPhrase(env.raised[i])

\* the history part of the report is the step history, entry by entry
ReportsHistory(r) ==
  /\ r.steps_taken = Len(step_history)
  /\ Len(r.history) = Len(step_history)
  /\ \A i \in 1..Len(step_history) :
        /\ r.history[i].step = step_history[i].step_number
        /\ r.history[i].thought = step_history[i].thought
        /\ r.history[i].action = step_history[i].action
        /\ r.history[i].params = step_history[i].action_params
        /\ HasSuccess(step_history[i].result)
        /\ r.history[i].success = step_history[i].result.success

\* C1: a run in which the oracle never proposes `complete` and no step-level
\* exception is critical performs exactly max_steps iterations and then ends
\* Failed, returning success = False with the reason "max steps reached"
\* (compared here without regard to letter case).
C1_BudgetInvariant ==
  (pc = "done" /\ NeverProposedComplete /\ NoCriticalRaised) =>
     /\ step = max_steps
     /\ env.observe_calls = max_steps
     /\ state = "failed"
     /\ ret.kind = "returned"
     /\ ret.success = FALSE
     /\ Lower(ret.reason) = "max steps reached"

\* C2: the step in which the oracle proposes `complete` sets the state to
\* Completed and returns at once with success = True and the plan's thought as
\* reason; nothing of the actuator is called, no StepResult is appended and no
\* action record is added to memory.
C2_CompleteReturnsAtOnce ==
  [][(pc = "plan" /\ env'.proposed = Append(env.proposed, "complete")) =>
       /\ state' = "completed"
       /\ pc' = "done"
       /\ ret'.kind = "returned"
       /\ ret'.success = TRUE
       /\ ret'.reason = plan'.thought
       /\ env'.invoked = env.invoked
       /\ step_history' = step_history
       /\ memory'.actions_history = memory.actions_history]_vars

\* C3: when the oracle has proposed k actions other than `complete` and then
\* `complete`, and neither the observation fetch nor the oracle raised, the run
\* has ended Completed in iteration k+1 with success = True, steps_taken = k
\* and a history of k entries numbered 1..k in dispatch order.
C3_CompletionScenario ==
  (/\ env.raised = <<>>
   /\ Len(env.proposed) > 0
   /\ Last(env.proposed) = "complete"
   /\ \A i \in 1..(Len(env.proposed) - 1) : env.proposed[i] # "complete") =>
     LET k == Len(env.proposed) - 1
     IN /\ pc = "done"
        /\ state = "completed"
        /\ step = k + 1
        /\ ret.kind = "returned"
        /\ ret.success = TRUE
        /\ ret.steps_taken = k
        /\ Len(ret.history) = k
        /\ \A i \in 1..k : /\ ret.history[i].step = i
                           /\ ret.history[i].action = env.proposed[i]

\* C4: once the observation fetch or the oracle call has raised an exception
\* whose text holds a critical phrase in any letter case, the error is the
\* last one recorded in memory, the state is Failed and run has returned
\* success = False with the error text as reason; nothing is called after it.
C4_CriticalAbort ==
  (Len(env.raised) > 0 /\ HasCriticalPhrase(Last(env.raised))) =>
     /\ Last(memory.errors) = Last(env.raised)
     /\ state = "failed"
     /\ pc = "done"
     /\ ret.kind = "returned"
     /\ ret.success = FALSE
     /\ ret.reason = Last(env.raised)

\* C5: a step-level exception whose text holds no critical phrase does not
\* end the run: its text is appended to memory's errors, no StepResult is
\* appended, the state is not set to Failed, run does not return and control
\* is back at the loop condition with the iteration counted.
C5_RecoverableContinues ==
  [][(/\ Len(env'.caught) = Len(env.caught) + 1
      /\ ~HasCriticalPhrase(Last(env'.caught))) =>
       /\ memory'.errors = Append(memory.errors, Last(env'.caught))
       /\ step_history' = step_history
       /\ state' # "failed"
       /\ ret' = ret
       /\ pc' = "loop"
       /\ step' = step]_vars

\* a recoverable "element not found" was handled and the budget allows
\* another iteration
C5_Witness ==
  /\ pc = "loop"
  /\ step < max_steps
  /\ Len(env.caught) > 0
  /\ Last(env.caught) = "element not found"
  /\ Last(memory.errors) = "element not found"
  /\ state = "thinking"

\* C6: dispatching a name for which the actuator has no handler yields the
\* ActionResult (False, "Unknown action: <name>"), which is appended to the
\* history and recorded in memory as a failed action, and the loop continues.
C6_UnknownAction ==
  [][(pc = "dispatch" /\ pc' = "sleep" /\ plan.action \notin ActuatorHandlers) =>
       /\ Len(step_history') = Len(step_history) + 1
       /\ Last(step_history').result =
             ActionResult(FALSE, "Unknown action: " \o plan.action)
       /\ Len(memory'.actions_history) = Len(memory.actions_history) + 1
       /\ Last(memory'.actions_history).success = FALSE
       /\ ret' = ret]_vars

\* C7: a plan that proposes a name the ToolRegistry does not hold is an
\* unknown-action failure: nothing of the actuator is invoked, the result of
\* the step has success = False, and run does not raise.
C7_UnregisteredAction ==
  [][/\ (pc = "dispatch" /\ pc' = "sleep" /\ ~Registered(plan.action)) =>
          /\ env'.invoked = env.invoked
          /\ HasSuccess(Last(step_history').result)
          /\ Last(step_history').result.success = FALSE
     /\ ret'.kind # "raised"]_vars

\* C8: an exception raised while an attribute of the actuator is called
\* becomes an ActionResult with success = False whose message carries the
\* exception text; the step is recorded in the history and in the action
\* ledger as failed, nothing is added to memory's errors, the except clause
\* of run is not reached and the loop continues.
C8_ActuatorException ==
  [][(Len(env'.handler_raised) = Len(env.handler_raised) + 1) =>
       LET e == Last(env'.handler_raised)
           r == Last(step_history').result
           a == Last(memory'.actions_history)
       IN /\ Len(step_history') = Len(step_history) + 1
          /\ Len(memory'.actions_history) = Len(memory.actions_history) + 1
          /\ step_history' =
                Append(step_history,
                       StepResult(step, plan.thought, plan.action, plan.params, r))
          /\ HasSuccess(r)
          /\ r.success = FALSE
          /\ Contains(r.message, e)
          /\ a.action = plan.action
          /\ a.params = plan.params
          /\ a.success = FALSE
          /\ memory'.errors = memory.errors
          /\ env'.caught = env.caught
          /\ state' = state
          /\ ret' = ret
          /\ pc' = "sleep"]_vars

\* a handler raised "Target closed" and the step was recorded as failed
C8_Witness ==
  /\ pc = "sleep"
  /\ Len(env.handler_raised) > 0
  /\ Last(env.handler_raised) = "Target closed"
  /\ Last(step_history).result = ActionResult(FALSE, "Action failed: Target closed")
  /\ memory.errors = <<>>

\* C9: whenever run has ended it has returned a report whose success is True
\* exactly when the state is Completed and False exactly when it is Failed,
\* with the task, steps_taken and every StepResult in append order.
C9_FullReport ==
  (pc = "done") =>
     /\ ret.kind = "returned"
     /\ ret.success = TRUE <=> state = "completed"
     /\ ret.success = FALSE <=> state = "failed"
     /\ ret.task = current_task
     /\ ReportsHistory(ret)

\* C10: once the state is Completed or Failed it does not change again.
C10_TerminalStatesStay ==
  [][(state \in {"completed", "failed"}) => (state' = state)]_vars

\* C11: within a run the state changes only along idle -> thinking at the
\* start of run, thinking -> acting on a plan other than `complete`,
\* acting -> thinking in the next iteration, thinking -> completed on a
\* `complete` plan, and into failed on a critical error or when the budget
\* is exhausted; completed is entered only on a `complete` plan and failed
\* only on a critical error or an exhausted budget.
C11_StateTransitions ==
  [][(state' # state) =>
       \/ state = "idle" /\ state' = "thinking" /\ pc = "idle"
       \/ /\ state = "thinking" /\ state' = "acting"
          /\ Len(env'.proposed) = Len(env.proposed) + 1
          /\ Last(env'.proposed) # "complete"
       \/ state = "acting" /\ state' = "thinking" /\ pc = "observe"
       \/ /\ state = "thinking" /\ state' = "completed"
          /\ Len(env'.proposed) = Len(env.proposed) + 1
          /\ Last(env'.proposed) = "complete"
       \/ /\ state' = "failed"
          /\ \/ /\ Len(env'.caught) = Len(env.caught) + 1
                /\ HasCriticalPhrase(Last(env'.caught))
             \/ pc = "loop" /\ ~(step < max_steps)]_vars

\* the external operations started so far: observation fetches, oracle
\* calls, actuator dispatches and inter-step delays
ExternalCalls(e) == e.observe_calls + e.plan_calls + Len(e.invoked) + e.sleeps

\* the last item recorded in memory is an observation
ObservationRecordedLast(m) ==
  /\ Len(m.short_term) > 0
  /\ Last(m.short_term).item_type = "observation"
  /\ Len(m.observations_cache) > 0

\* C12: a run is strictly sequential: every step starts at most one external
\* operation (observation fetch, oracle call, actuator dispatch, inter-step
\* delay), and within an iteration they come in the order observation fetch,
\* observation recorded into memory, oracle call, actuator dispatch, step and
\* action recorded, delay; an iteration starts only at the loop head, after
\* the previous one has finished.
C12_StrictSequencing ==
  [][/\ ExternalCalls(env') <= ExternalCalls(env) + 1
     /\ (env'.observe_calls # env.observe_calls) =>
           /\ pc = "observe"
           /\ env'.observe_calls = step
           /\ step_history' = step_history
           /\ (pc' = "plan") => /\ ObservationRecordedLast(memory')
                                /\ Len(memory'.short_term) = Len(memory.short_term) + 1
     /\ (env'.plan_calls # env.plan_calls) =>
           /\ pc = "plan"
           /\ env.observe_calls = step
           /\ ObservationRecordedLast(memory)
           /\ step_history' = step_history
     /\ (env'.invoked # env.invoked) =>
           /\ pc = "dispatch"
           /\ env.observe_calls = step
           /\ Len(env.proposed) > 0 /\ Last(env.proposed) = plan.action
           /\ ObservationRecordedLast(memory)
           /\ env'.invoked = Append(env.invoked, plan.action)
     /\ (step_history' # step_history) =>
           /\ pc = "dispatch"
           /\ Len(step_history') = Len(step_history) + 1
           /\ Last(step_history').step_number = step
           /\ Last(step_history').action = plan.action
           /\ Len(memory'.actions_history) = Len(memory.actions_history) + 1
           /\ Last(memory'.actions_history).action = plan.action
           /\ pc' = "sleep"
     /\ (env'.sleeps # env.sleeps) =>
           /\ pc = "sleep"
           /\ Len(step_history) > 0 /\ Last(step_history).step_number = step
           /\ memory' = memory /\ step_history' = step_history
     /\ (step' # step) =>
           /\ pc = "loop" /\ pc' = "observe"
           /\ step' = step + 1
           /\ env.observe_calls = step
           /\ env' = env /\ memory' = memory /\ step_history' = step_history]_vars

\* the second iteration has gone through all its operations up to the delay
C12_Witness ==
  /\ pc = "sleep" /\ step = 2
  /\ env.observe_calls = 2 /\ env.plan_calls = 2 /\ Len(env.invoked) = 2
  /\ env.sleeps = 1 /\ Len(step_history) = 2

\* what a memory item was made from: its type, content and importance
Made(item) == <<item.item_type, item.content, item.importance>>

\* C13: for short-term capacity C, after any sequence of memory operations
\* the short-term buffer holds at most C items, and after M > C insertions
\* (counted since the buffer was last cleared by clear_short_term) it holds
\* exactly the C most recently inserted items, in insertion order.
C13_ShortTermBound ==
  LET C == memory.short_term_capacity
      M == Len(call.inserted)
  IN /\ Len(memory.short_term) <= C
     /\ (M > C) =>
          /\ Len(memory.short_term) = C
          /\ \A i \in 1..C : Made(memory.short_term[i]) = call.inserted[M - C + i]
     /\ (M <= C) =>
          /\ Len(memory.short_term) = M
          /\ \A i \in 1..M : Made(memory.short_term[i]) = call.inserted[i]

\* three items went into a buffer of capacity 2: the first one is gone
C13_Witness ==
  /\ memory.short_term_capacity = 2
  /\ Len(call.inserted) = 3
  /\ Len(memory.short_term) = 2
  /\ Made(memory.short_term[1]) = call.inserted[2]

\* the items of a sequence, each known by its timestamp (no two items are
\* made at the same time)
Stamps(q) == {q[i].timestamp : i \in 1..Len(q)}
ItemAt(q, t) == q[CHOOSE i \in 1..Len(q) : q[i].timestamp = t]

\* the last call was a promotion: a direct one, or the one of a flagged
\* reflection
Promoted ==
  \/ call.op = "_promote_to_long_term"
  \/ call.op = "add_reflection" /\ IsImportant(call.args[1])

\* the first item of q, in q's order, whose importance is the lowest in q
FirstLowest(q) ==
  LET i == CHOOSE i \in 1..Len(q) :
             /\ \A j \in 1..Len(q) : q[i].importance <= q[j].importance
             /\ \A j \in 1..(i - 1) : q[j].importance > q[i].importance
  IN q[i]

\* C14: for long-term capacity K >= 1, after any sequence of promotions the
\* long-term tier holds at most K items, and a promotion into a full tier
\* removes exactly one item, which has the lowest importance among the items
\* held before the promotion (among equals, the one the stable sort puts
\* first: the first in the tier's order), and adds the promoted item.
C14_LongTermBound ==
  (memory.long_term_capacity >= 1 /\ call.n > 0) =>
    LET K == memory.long_term_capacity
        held == call.before.long_term
        before == Stamps(held)
        after == Stamps(memory.long_term)
        added == Last(memory.long_term)
    IN /\ Len(memory.long_term) <= K
       /\ (Promoted /\ Len(held) = K) =>
            /\ Len(memory.long_term) = K
            /\ before \ after = {FirstLowest(held).timestamp}
            /\ \A i \in 1..Len(held) : FirstLowest(held).importance <= held[i].importance
            /\ \A t \in before \cap after : ItemAt(memory.long_term, t) = ItemAt(held, t)
            /\ after \ before = {added.timestamp}
            /\ <<added.content, added.importance>> = Last(call.promoted)
       /\ (Promoted /\ Len(held) < K) =>
            /\ Len(memory.long_term) = Len(held) + 1
            /\ SubSeq(memory.long_term, 1, Len(held)) = held
            /\ <<added.content, added.importance>> = Last(call.promoted)
       /\ ~Promoted => memory.long_term = held

\* a tier of capacity 2 held a more important item before a less important
\* one; the third promotion removed the less important one
C14_Witness ==
  /\ memory.long_term_capacity = 2
  /\ Len(call.promoted) = 3
  /\ call.promoted[1][2] = 90 /\ call.promoted[2][2] = 50
  /\ Len(memory.long_term) = 2
  /\ memory.long_term[1].importance = 90
  /\ memory.long_term[1].content = call.promoted[1][1]

\* C15: for long-term capacity K and any importances, after K+1 promotions
\* the tier holds K items and does not hold the promoted item whose
\* importance is the lowest of all K+1 (where one item is the lowest), also
\* when that item is the one promoted last.
C15_GloballyLowestExcluded ==
  LET K == memory.long_term_capacity
      P == call.promoted
  IN (Len(P) = K + 1) =>
       /\ Len(memory.long_term) = K
       /\ \A i \in 1..Len(P) :
            (\A j \in 1..Len(P) : j # i => P[i][2] < P[j][2]) =>
               \A k \in 1..Len(memory.long_term) :
                  memory.long_term[k].content # P[i][1]

\* C16: get_success_rate returns 1.0 for every last_n when the ledger is
\* empty.
C16_EmptyLedgerRate ==
  (call.op = "get_success_rate" /\ call.before.actions_history = <<>>) =>
     /\ call.ret.kind = "returned"
     /\ call.ret.value.kind = "float"
     /\ call.ret.value.den >= 1
     /\ call.ret.value.num = call.ret.value.den

\* the rate of an empty ledger was asked for with last_n = 0
C16_Witness ==
  /\ call.op = "get_success_rate"
  /\ call.args = <<0>>
  /\ call.before.actions_history = <<>>
  /\ call.before.notes # <<>>

\* the timestamps of a sequence of items, in order
StampSeq(q) == [i \in 1..Len(q) |-> q[i].timestamp]

\* the type and the importance the claim gives to the item a call adds
AddedType ==
  [set_goal |-> "goal", add_sub_goal |-> "sub_goal", add_observation |-> "observation",
   add_action |-> "action", add_reflection |-> "reflection", add_error |-> "error",
   add_note |-> "note"]
AddedImportance ==
  CASE call.op = "set_goal" -> 100
    [] call.op = "add_sub_goal" -> 80
    [] call.op = "add_observation" -> 50
    [] call.op = "add_action" -> IF call.args[3].success THEN 70 ELSE 90
    [] call.op = "add_reflection" -> 85
    [] call.op = "add_error" -> 80
    [] call.op = "add_note" -> call.args[2]

\* C17: each of set_goal, add_sub_goal, add_observation, add_action,
\* add_reflection, add_error and add_note appends exactly one item to the
\* short-term buffer (a buffer of capacity 0 keeps none), of importance
\* goal 1.0, sub_goal 0.8, observation 0.5, successful action 0.7, failed
\* action 0.9, error 0.8, reflection 0.85, and for a note the importance
\* given (0.6 by default); a failed action always weighs more than a
\* successful one.
C17_CategoryWeights ==
  LET st == memory.short_term
      old == call.before.short_term
      C == memory.short_term_capacity
      kept == IF Len(old) < C THEN old ELSE Tail(old)
  IN /\ (call.op \in DOMAIN AddedType /\ C >= 1) =>
          /\ Len(st) = Len(kept) + 1
          /\ StampSeq(SubSeq(st, 1, Len(st) - 1)) = StampSeq(kept)
          /\ Last(st).timestamp \notin Stamps(old)
          /\ Last(st).item_type = AddedType[call.op]
          /\ Last(st).importance = AddedImportance
     /\ (call.op \in DOMAIN AddedType /\ C = 0) => st = <<>>
     /\ DefaultNoteImportance = 60
     /\ \A i, j \in 1..Len(st) :
          (/\ st[i].item_type = "action" /\ st[j].item_type = "action"
           /\ ~st[i].content.success /\ st[j].content.success)
          => st[i].importance > st[j].importance

\* a buffer of capacity 2 held a successful and a failed action, and a note
\* of an importance other than the default was added
C17_Witness ==
  /\ call.op = "add_note" /\ call.args[2] = 30
  /\ memory.short_term_capacity = 2
  /\ Len(call.before.short_term) = 2
  /\ call.before.short_term[1].item_type = "action"
  /\ call.before.short_term[1].importance = 70
  /\ call.before.short_term[2].item_type = "action"
  /\ call.before.short_term[2].importance = 90
  /\ Len(memory.short_term) = 2
  /\ memory.short_term[2].importance = 30

LastN(q, k) == SubSeq(q, Len(q) - (IF k < Len(q) THEN k ELSE Len(q)) + 1, Len(q))

\* C19: get_context(max_items) returns, as part of the context handed to
\* the oracle, the last max_items items of the short-term buffer.
C19_RecentItemsReturned ==
  (call.op = "get_context" /\ call.args[1] >= 1) =>
     /\ "recent_items" \in DOMAIN call.ret.value
     /\ StampSeq(call.ret.value.recent_items)
          = StampSeq(LastN(call.before.short_term, call.args[1]))

\* the smaller of two numbers
Min(a, b) == IF a < b THEN a ELSE b

\* the quoted memories are k long-term items of highest importance, the
\* most important first: some choice of k different items matches them, in
\* non-increasing importance, and no item left out is more important than
\* a chosen one
AreMostImportant(quoted, held) ==
  \E f \in [1..Len(quoted) -> 1..Len(held)] :
     /\ \A i, j \in 1..Len(quoted) : i # j => f[i] # f[j]
     /\ \A i \in 1..Len(quoted) :
          /\ quoted[i].type = held[f[i]].item_type
          /\ quoted[i].content = SliceTo(StrContent(held[f[i]]), 200)
     /\ \A i \in 1..(Len(quoted) - 1) :
          held[f[i]].importance >= held[f[i + 1]].importance
     /\ \A k \in 1..Len(held) :
          (\A i \in 1..Len(quoted) : f[i] # k) =>
             \A i \in 1..Len(quoted) : held[f[i]].importance >= held[k].importance

\* C20: get_context returns the goal, all sub-goals, exactly the last
\* min(5, n) action records in ledger order, the min(3, n) long-term items
\* of highest importance, the last min(3, n) observations, the last
\* min(5, n) notes, the last min(3, n) reflections and the last min(3, n)
\* errors, n being the number held of each, and it changes no memory state.
C20_ContextBounded ==
  (call.op = "get_context") =>
     LET ctx == call.ret.value
         m == call.before
         actions == LastN(m.actions_history, 5)
         observations == LastN(m.observations_cache, 3)
     IN /\ ctx.goal = m.goal
        /\ ctx.sub_goals = m.sub_goals
        /\ Len(ctx.recent_actions) = Min(5, Len(m.actions_history))
        /\ \A i \in 1..Len(ctx.recent_actions) :
             /\ ctx.recent_actions[i].action = actions[i].action
             /\ ctx.recent_actions[i].params = actions[i].params
             /\ ctx.recent_actions[i].success = actions[i].success
        /\ Len(ctx.important_memories) = Min(3, Len(m.long_term))
        /\ AreMostImportant(ctx.important_memories, m.long_term)
        /\ Len(ctx.recent_observations) = Min(3, Len(m.observations_cache))
        /\ \A i \in 1..Len(ctx.recent_observations) :
             /\ ctx.recent_observations[i].url = observations[i].url
             /\ ctx.recent_observations[i].title = observations[i].title
        /\ Len(ctx.notes) = Min(5, Len(m.notes))
        /\ ctx.notes = LastN(m.notes, 5)
        /\ Len(ctx.reflections) = Min(3, Len(m.reflections))
        /\ ctx.reflections = LastN(m.reflections, 3)
        /\ Len(ctx.errors) = Min(3, Len(m.errors))
        /\ ctx.errors = LastN(m.errors, 3)
        /\ StampSeq(memory.long_term) = StampSeq(m.long_term)
        /\ memory = m

\* the context of a memory that holds more of everything than is quoted
C20_Witness ==
  /\ call.op = "get_context"
  /\ Len(call.before.actions_history) = 6 /\ Len(call.before.notes) = 6
  /\ Len(call.before.long_term) = 4 /\ Len(call.before.observations_cache) = 4
  /\ Len(call.before.reflections) = 4 /\ Len(call.before.errors) = 4
  /\ Len(call.before.sub_goals) = 2
  /\ Len(call.ret.value.recent_actions) = 5
  /\ Len(call.ret.value.important_memories) = 3

\* the item's stringified content or one of its tags contains the query,
\* letter case apart
MatchesAnyCase(item, query) ==
  \/ Contains(Lower(StrContent(item)), Lower(query))
  \/ \E i \in 1..Len(item.tags) : Contains(Lower(item.tags[i]), Lower(query))

\* x is ranked above y: more important, or as important and more recent
RankedAbove(x, y) ==
  \/ x.importance > y.importance
  \/ x.importance = y.importance /\ x.timestamp > y.timestamp

\* C21: search(query, limit) returns exactly the items of the short-term
\* and long-term tiers whose stringified content or one of whose tags
\* contains the query regardless of letter case, ordered by importance
\* descending and then by recency descending, cut to the first `limit`
\* items; it changes no memory state.
C21_Search ==
  call.op = "search" =>
     LET query == call.args[1]
         limit == call.args[2]
         held == call.before.short_term \o call.before.long_term
         matching == {t \in Stamps(held) : MatchesAnyCase(ItemAt(held, t), query)}
         found == call.ret.value
     IN /\ Len(found) = Min(limit, Cardinality(matching))
        /\ \A i \in 1..Len(found) :
              /\ found[i].timestamp \in matching
              /\ found[i] = ItemAt(held, found[i].timestamp)
        /\ \A i, j \in 1..Len(found) : i < j => RankedAbove(found[i], found[j])
        /\ \A t \in matching \ Stamps(found) :
              \A i \in 1..Len(found) : RankedAbove(found[i], ItemAt(held, t))
        /\ memory = call.before

\* a query in capitals matched more actions than the limit, one of them
\* recorded under a capitalised name, and the failed one is ranked first
C21_Witness ==
  /\ call.op = "search"
  /\ call.args = <<"Click", 2>>
  /\ Len(call.before.actions_history) >= 3
  /\ Len(call.ret.value) = 2
  /\ call.ret.value[1].importance > call.ret.value[2].importance
  /\ \E i \in 1..Len(call.before.short_term) :
        call.before.short_term[i].tags = <<"action", "Click">>

\* C22: for every memory m, import_state(m.export()) into another memory
\* restores goal, sub_goals, notes, reflections and errors equal to m's, and
\* leaves the receiving memory's action ledger, short-term buffer and
\* long-term tier unchanged (empty when the receiver is fresh), although
\* the snapshot carries actions_history.
C22_AsymmetricPersistence ==
  (call.op = "import_state" /\ DOMAIN call.args[1] = SnapshotKeys) =>
     /\ Len(call.args[1].actions_history) = Len(call.peer.actions_history)
     /\ memory.goal = call.peer.goal
     /\ memory.sub_goals = call.peer.sub_goals
     /\ memory.notes = call.peer.notes
     /\ memory.reflections = call.peer.reflections
     /\ memory.errors = call.peer.errors
     /\ StampSeq(memory.actions_history) = StampSeq(call.before.actions_history)
     /\ StampSeq(memory.short_term) = StampSeq(call.before.short_term)
     /\ StampSeq(memory.long_term) = StampSeq(call.before.long_term)
     /\ (call.before = NewMemory =>
           /\ memory.actions_history = <<>>
           /\ memory.short_term = <<>>
           /\ memory.long_term = <<>>)

\* a snapshot with actions in it was read into a new Memory
C22_Witness ==
  /\ call.op = "import_state"
  /\ DOMAIN call.args[1] = SnapshotKeys
  /\ call.before = NewMemory
  /\ Len(call.args[1].actions_history) = 2
  /\ Len(memory.sub_goals) = 2
  /\ Len(memory.reflections) = 2
  /\ memory.goal = "log in"

\* C23: import_state of a snapshot that lacks any of goal, sub_goals, notes,
\* reflections, errors does not raise and sets each lacking field to its
\* empty default (goal absent, lists empty), replacing whatever the memory
\* held in that field before.
C23_MissingFieldsDefault ==
  call.op = "import_state" =>
     /\ call.ret = NoneReturned
     /\ ("goal" \notin DOMAIN call.args[1] => memory.goal = NewMemory.goal)
     /\ ("sub_goals" \notin DOMAIN call.args[1] => memory.sub_goals = <<>>)
     /\ ("notes" \notin DOMAIN call.args[1] => memory.notes = <<>>)
     /\ ("reflections" \notin DOMAIN call.args[1] => memory.reflections = <<>>)
     /\ ("errors" \notin DOMAIN call.args[1] => memory.errors = <<>>)

\* an empty snapshot was read into a Memory that held something in each of
\* the five fields
C23_Witness ==
  /\ call.op = "import_state"
  /\ DOMAIN call.args[1] = {}
  /\ call.before.goal = "earlier task"
  /\ call.before.sub_goals # <<>>
  /\ call.before.notes # <<>>
  /\ call.before.reflections # <<>>
  /\ call.before.errors # <<>>
  /\ memory.goal = NewMemory.goal
  /\ memory.errors = <<>>

\* C24: for every configured short-term capacity >= 0 and long-term capacity
\* >= 0 and every sequence of set_goal, add_*, get_context, search,
\* get_success_rate, clear_short_term, export, import_state and promotions
\* (add_reflection flagged important), no call ends in an error; in
\* particular a promotion into a tier of capacity 0 does not fail.
C24_NoOperationRaises == call.ret.kind # "raised"

\* the names in the register calls made so far
RegisteredNames == {call.registered[i][1] : i \in 1..Len(call.registered)}

\* the last register call made for the name
LastRegistration(name) ==
  call.registered[CHOOSE i \in 1..Len(call.registered) :
                     /\ call.registered[i][1] = name
                     /\ \A j \in (i + 1)..Len(call.registered) :
                           call.registered[j][1] # name]

\* C25: register is an idempotent upsert: after any sequence of register
\* calls the registry holds exactly one definition per distinct name,
\* get_tool(name) returns the definition of the last registration for that
\* name, registering the same (name, description, parameters) twice leaves
\* the registry as after one registration, and get_tool of a
\* never-registered name returns the not-found value without raising or
\* changing the registry.
C25_RegisterUpsert ==
  /\ Len(tools) = Cardinality(RegisteredNames)
  /\ \A name \in RegisteredNames :
        /\ Cardinality({i \in 1..Len(tools) : tools[i].name = name}) = 1
        /\ LET r == LastRegistration(name)
           IN GetTool(tools, name) = Tool(r[1], r[2], r[3])
  /\ (/\ call.op = "register"
      /\ Len(call.registered) >= 2
      /\ call.registered[Len(call.registered) - 1] = Last(call.registered))
        => tools = call.before
  /\ call.op = "get_tool" =>
        /\ call.ret.kind = "returned"
        /\ tools = call.before
        /\ call.args[1] \in RegisteredNames =>
              LET r == LastRegistration(call.args[1])
              IN call.ret.value = Tool(r[1], r[2], r[3])
        /\ call.args[1] \notin RegisteredNames => call.ret.value = NoneValue

\* a name was registered twice with different descriptions and then once
\* more with the second
C25_Witness ==
  /\ call.op = "register"
  /\ Len(call.registered) = Len(DefaultRegistrations) + 3
  /\ call.args[1] = "upload"
  /\ \A i \in (Len(DefaultRegistrations) + 1)..Len(call.registered) :
        call.registered[i][1] = "upload"
  /\ call.registered[Len(DefaultRegistrations) + 1][2] = "another description"
  /\ call.registered[Len(DefaultRegistrations) + 2][2] = DefaultDescription("click")
  /\ call.registered[Len(DefaultRegistrations) + 3][2] = DefaultDescription("click")
  /\ Len(tools) = Len(DefaultTools) + 1

\* the names of the register calls, each where it was registered first
RECURSIVE FirstOccurrences(_)
FirstOccurrences(registrations) ==
  IF registrations = <<>> THEN <<>>
  ELSE LET earlier == FirstOccurrences(SubSeq(registrations, 1, Len(registrations) - 1))
           name == Last(registrations)[1]
       IN IF \E i \in 1..Len(earlier) : earlier[i] = name THEN earlier
          ELSE Append(earlier, name)

\* C26: get_schema returns every registered tool exactly once, ordered by
\* registration order: a name first registered earlier comes before a name
\* first registered later, and re-registering an existing name replaces its
\* definition without moving it or any other tool in the sequence; two
\* registries given the same register sequence return the same schema
\* sequence (the schema is a function of the register calls made).
C26_SchemaOrder ==
  /\ ListTools(GetSchema(tools)) = FirstOccurrences(call.registered)
  /\ \A i \in 1..Len(tools) :
        LET r == LastRegistration(tools[i].name)
        IN GetSchema(tools)[i] = Tool(r[1], r[2], r[3])
  /\ (call.op = "register" /\ Has(call.before, call.args[1])) =>
        /\ ListTools(tools) = ListTools(call.before)
        /\ \A i \in 1..Len(tools) :
              tools[i].name # call.args[1] => tools[i] = call.before[i]
  /\ call.op = "get_schema" =>
        /\ call.ret.kind = "returned"
        /\ call.ret.value = GetSchema(tools)
        /\ tools = call.before

\* the schema was asked for after a new tool was registered and a default
\* tool was registered again: the default tool is where it was, changed
C26_Witness ==
  /\ call.op = "get_schema"
  /\ Len(call.ret.value) = Len(DefaultTools) + 1
  /\ call.ret.value[4].name = "click"
  /\ call.ret.value[4].description = "another description"
  /\ Last(call.ret.value).name = "upload"
  /\ Last(call.registered)[1] = "click"

\* the names of a list are all different from the names of another
Disjoint(a, b) == \A i \in 1..Len(a), j \in 1..Len(b) : a[i] # b[j]

\* C27: every action name in the navigation, interaction, observation and
\* control sets is a tool registered by default, the four sets are pairwise
\* disjoint, and the 'full' set equals the list of all registered tool
\* names in registration order.
C27_NamedSubsets ==
  call.op = "get_tool_set" =>
     /\ call.ret.kind = "returned"
     /\ call.args[1] # "full" =>
           /\ \A i \in 1..Len(call.ret.value) :
                 /\ \E j \in 1..Len(DefaultTools) : DefaultTools[j] = call.ret.value[i]
                 /\ GetTool(NewToolRegistry, call.ret.value[i]) # NoneValue
           /\ \A other \in {"navigation", "interaction", "observation", "control"} :
                 other # call.args[1] => Disjoint(call.ret.value, GetToolSet(other))
     /\ call.args[1] = "full" =>
           /\ call.ret.value = DefaultTools
           /\ call.ret.value = ListTools(NewToolRegistry)

\* the navigation set was asked for
C27_Witness ==
  /\ call.op = "get_tool_set"
  /\ call.args[1] = "navigation"
  /\ Len(call.ret.value) = 4
  /\ call.ret.value[4] = "scroll"

\* C28: for every oracle response, Planner.plan returns a Plan with a
\* non-empty thought, an action name and a confidence in [0,1]; when the
\* response carries no tool selection the Plan is the fallback action
\* 'wait' with confidence 0.5 instead of a raised failure, and when the
\* response carries its own confidence value the Plan's confidence is still
\* within [0,1].
C28_WellFormedPlan ==
  call.op = "plan" =>
     /\ call.ret.kind = "returned"
     /\ call.ret.value.kind = "Plan"
     /\ call.ret.value.thought # ""
     /\ call.ret.value.action # ""
     /\ call.ret.value.confidence >= 0
     /\ call.ret.value.confidence <= 100
     /\ call.args[1].tool_calls = <<>> =>
           /\ call.ret.value.action = "wait"
           /\ call.ret.value.confidence = 50

\* C29: get_success_rate(last_n) considers only the last min(last_n, ledger
\* length) action records: for every ledger and every last_n >= 0 it returns
\* the number of successful records among those divided by their count, and
\* 1.0 when there are none to consider (including last_n == 0 on a
\* non-empty ledger).
C29_SuccessRate ==
  (call.op = "get_success_rate" /\ call.args[1] >= 0) =>
     LET ledger == call.before.actions_history
         considered == LastN(ledger, Min(call.args[1], Len(ledger)))
         successful == Cardinality({i \in 1..Len(considered) : considered[i].success})
         rate == call.ret.value
     IN /\ call.ret.kind = "returned"
        /\ rate.den >= 1
        /\ IF considered = <<>> THEN rate.num = rate.den
           ELSE rate.num * Len(considered) = successful * rate.den

\* q is the beginning of r
IsPrefix(q, r) == Len(q) <= Len(r) /\ \A i \in 1..Len(q) : r[i] = q[i]

C31_FreshRun ==
  /\ (pc = "loop" /\ step = 0) =>
        /\ step_history = <<>>
        /\ Len(memory.short_term) = 1
        /\ memory.short_term[1].item_type = "goal"
        /\ memory.actions_history = <<>>
        /\ memory.errors = <<>>
        /\ memory.observations_cache = <<>>
  /\ (pc = "done" /\ ret.kind = "returned") =>
        ret.steps_taken <= step /\ Len(ret.history) <= step
  /\ (pc \in {"dispatch", "done"} /\ step = 1 /\ env.context # NoContext) =>
        /\ env.context.recent_actions = <<>>
        /\ env.context.errors = <<>>
        /\ Len(env.context.recent_observations) = 1

\* a handler has just raised a text with a critical phrase in iteration k
CriticalHandlerFailure(k) ==
  /\ pc = "sleep"
  /\ step = k
  /\ Len(env.handler_raised) > 0
  /\ HasCriticalPhrase(Last(env.handler_raised))
  /\ Len(step_history) > 0
  /\ Last(step_history).step_number = k
  /\ HasSuccess(Last(step_history).result)
  /\ Last(step_history).result.message = "Action failed: " \o Last(env.handler_raised)

\* C32: when an action handler raises an exception whose text contains
\* 'target closed' (or another critical phrase), the run does not enter
\* Failed at that step; the exception becomes a failed ActionResult, the
\* abort predicate is not evaluated for it, and the next iteration starts
\* if the budget allows.
C32_CriticalHandlerFailure ==
  /\ [][(/\ Len(env'.handler_raised) = Len(env.handler_raised) + 1
         /\ HasCriticalPhrase(Last(env'.handler_raised))) =>
           /\ state' # "failed"
           /\ state' = state
           /\ ret' = ret
           /\ pc' = "sleep"
           /\ Len(step_history') = Len(step_history) + 1
           /\ HasSuccess(Last(step_history').result)
           /\ Last(step_history').result.success = FALSE
           /\ env'.caught = env.caught
           /\ memory'.errors = memory.errors]_vars
  /\ \A k \in 1..MaxSteps :
        (CriticalHandlerFailure(k) /\ k < max_steps)
           ~> (step = k + 1 /\ pc = "observe" /\ state # "failed")

\* the second iteration has started after a handler raised "Target closed"
\* in the first
C32_Witness ==
  /\ pc = "observe"
  /\ step = 2
  /\ env.handler_raised = <<"Target closed">>
  /\ Len(step_history) = 1
  /\ step_history[1].result = ActionResult(FALSE, "Action failed: Target closed")
  /\ state = "acting"
  /\ env.caught = <<>>

\* 1 while an iteration has started and has neither recorded its step nor
\* raised, and for the iteration that returned the completed report
Unrecorded ==
  IF pc \in {"observe", "plan", "dispatch"} THEN 1
  ELSE IF pc = "done" /\ state = "completed" THEN 1
  ELSE 0

\* C33: in a single run on a fresh agent, the number of loop iterations
\* started equals the history length plus the number of errors recorded in
\* memory plus the iteration in progress (or plus one for the completing
\* iteration); hence steps_taken = history length <= max_steps, history step
\* numbers are strictly increasing within 1..max_steps, and steps_taken is
\* smaller than the number of iterations performed whenever an iteration
\* raised or completed the task.
C33_StepAccounting ==
  (pc # "idle") =>
    /\ step = Len(step_history) + Len(memory.errors) + Unrecorded
    /\ Len(step_history) <= max_steps
    /\ \A i \in 1..Len(step_history) : step_history[i].step_number \in 1..max_steps
    /\ \A i \in 1..Len(step_history) : \A j \in 1..Len(step_history) :
          i < j => step_history[i].step_number < step_history[j].step_number
    /\ (pc = "done" /\ ret.kind = "returned") =>
          /\ ret.steps_taken = Len(step_history)
          /\ Len(ret.history) = Len(step_history)
          /\ ret.steps_taken <= max_steps
          /\ (Len(memory.errors) > 0 \/ ret.success) => ret.steps_taken < step

\* a run that recorded a step, caught an error and then completed: three
\* iterations, one step reported
C33_Witness ==
  /\ pc = "done"
  /\ ret.kind = "returned"
  /\ ret.success
  /\ step = 3
  /\ Len(memory.errors) = 1
  /\ ret.steps_taken = 1

\* C34: in a single run on a fresh agent, whenever the loop is between
\* iterations or has returned, memory's action ledger has the same length
\* as the step history and the i-th ledger record has the same action,
\* params and success flag as the i-th StepResult.
C34_HistoryAndLedger ==
  (pc \in {"loop", "done"}) =>
    /\ Len(memory.actions_history) = Len(step_history)
    /\ \A i \in 1..Len(step_history) :
          /\ memory.actions_history[i].action = step_history[i].action
          /\ memory.actions_history[i].params = step_history[i].action_params
          /\ HasSuccess(step_history[i].result)
          /\ memory.actions_history[i].success = step_history[i].result.success

\* C35: every tool registered by default has an actuator handler of the
\* same name, so a Plan that proposes any registered action other than
\* `complete` never produces the 'Unknown action' result.
C35_RegisteredHasHandler ==
  /\ \A i \in 1..Len(tools) : AttrKind(tools[i].name) = "handler"
  /\ \A i \in 1..Len(step_history) :
        (Has(tools, step_history[i].action) /\ step_history[i].action # "complete") =>
           ~(/\ HasSuccess(step_history[i].result)
             /\ step_history[i].result.message =
                   "Unknown action: " \o step_history[i].action)

\* the registered scroll_to_element was proposed and its handler answered
C35_Witness ==
  /\ pc = "sleep"
  /\ Len(step_history) = 1
  /\ step_history[1].action = "scroll_to_element"
  /\ Has(tools, "scroll_to_element")
  /\ env.invoked = <<"scroll_to_element">>
  /\ step_history[1].result = ActionResult(TRUE, "done")

GoalItemKept ==
  \E i \in 1..Len(memory.short_term) : memory.short_term[i].item_type = "goal"

\* C37: after run has seeded memory with the task, get_context().goal equals
\* the task at every later oracle call of that run, also after the goal's
\* short-term item has been evicted because more than short_term_capacity
\* items were inserted.
C37_GoalOutlivesEviction ==
  (pc # "idle") =>
    /\ memory.goal = current_task
    /\ GetContext(memory, DefaultMaxItems).context.goal = current_task
    /\ (env.context # NoContext) => env.context.goal = current_task

\* the oracle was called after the goal item had left the full buffer
C37_Witness ==
  /\ pc = "dispatch"
  /\ memory.clock > ShortTermCapacity
  /\ Len(memory.short_term) = ShortTermCapacity
  /\ ~GoalItemKept
  /\ env.context # NoContext
  /\ env.context.goal = current_task
  /\ current_task \in Tasks

\* C38: clear_short_term empties the short-term buffer and the observation
\* cache and leaves the goal, sub-goals, action ledger, long-term tier,
\* notes, reflections and errors unchanged.
C38_ClearShortTermFrame ==
  (call.op = "clear_short_term") =>
    /\ memory.short_term = <<>>
    /\ memory.observations_cache = <<>>
    /\ memory.goal = call.before.goal
    /\ memory.sub_goals = call.before.sub_goals
    /\ memory.actions_history = call.before.actions_history
    /\ memory.long_term = call.before.long_term
    /\ memory.notes = call.before.notes
    /\ memory.reflections = call.before.reflections
    /\ memory.errors = call.before.errors

\* clear_short_term on a memory with a filled buffer, a cached observation,
\* a ledger entry and a long-term item
C38_Witness ==
  /\ call.op = "clear_short_term"
  /\ Len(call.before.short_term) > 0
  /\ Len(call.before.observations_cache) + Len(call.before.actions_history)
        + Len(call.before.errors) + Len(call.before.sub_goals) > 0
  /\ Len(call.before.long_term) + Len(call.before.notes) > 0
  /\ memory.short_term = <<>>

\* the coroutines that were handed a browser and have not finished releasing it
Holders(p) == {c \in Clients : p.client[c].pc \in {"holding", "releasing"}}

\* held plus available browsers
InCirculation(p) == Cardinality(Holders(p)) + Len(p.available)

\* C39: with a pool of size n in which every holder releases a browser at
\* most once per acquire, no browser is held by two acquirers at the same
\* time, the number of held plus available browsers is never more than n,
\* and an acquire made when all n are held waits until a release; if the
\* reset navigation inside release fails, the browser is not returned and
\* the pool permanently has one fewer browser available.
C39_PoolExclusivity ==
  /\ []( /\ \A c \in Holders(pool) : \A d \in Holders(pool) :
              c # d => pool.client[c].browser # pool.client[d].browser
         /\ \A c \in Holders(pool) : \A i \in 1..Len(pool.available) :
              pool.available[i] # pool.client[c].browser
         /\ \A i \in 1..Len(pool.available) : \A j \in 1..Len(pool.available) :
              i # j => pool.available[i] # pool.available[j]
         /\ InCirculation(pool) <= pool.pool_size
         /\ pool.initialized => InCirculation(pool) = pool.pool_size - pool.failed)
  /\ [][ /\ \A c \in Clients :
              /\ (pool.client[c].pc = "idle" /\ pool'.client[c].pc # "idle" /\ pool.available = <<>>) =>
                     pool'.client[c].pc = "waiting"
              /\ (pool.client[c].pc = "waiting" /\ pool.available = <<>>) =>
                     pool'.client[c].pc = "waiting"
              /\ (pool.client[c].pc \in {"idle", "waiting"} /\ pool'.client[c].pc = "holding") =>
                     /\ pool.available # <<>>
                     /\ pool'.client[c].browser = Head(pool.available)
              /\ (pool.client[c].pc = "releasing" /\ pool'.failed = pool.failed + 1) =>
                     /\ pool'.available = pool.available
                     /\ InCirculation(pool') = InCirculation(pool) - 1
         /\ (pool.initialized /\ pool.available = <<>> /\ pool'.available # <<>>) =>
              \E c \in Clients : /\ pool.client[c].pc = "releasing"
                                  /\ pool'.client[c].pc = "idle"
                                  /\ pool'.available = <<pool.client[c].browser>>
         /\ pool'.failed >= pool.failed
         /\ pool.initialized => InCirculation(pool') <= InCirculation(pool)]_vars

\* a pool of two after one release failed: one browser is held, none is
\* available and another acquirer waits
C39_Witness ==
  /\ pool # NoPool
  /\ pool.pool_size = 2
  /\ pool.failed = 1
  /\ pool.page # {}
  /\ pool.available = <<>>
  /\ Cardinality(Holders(pool)) = 1
  /\ \E c \in Clients : pool.client[c].pc = "waiting"

\* the item at offset o of the buffer exists and carries the tag
Carries(m, o, tag) ==
  /\ o >= 0
  /\ o < Len(m.short_term)
  /\ \E k \in 1..Len(m.short_term[o + 1].tags) : m.short_term[o + 1].tags[k] = tag

\* some offset recorded for some tag is not the position of an item with it
Stale(m) ==
  \E i \in 1..Len(m.semantic_index) : \E j \in 1..Len(m.semantic_index[i][2]) :
     ~Carries(m, m.semantic_index[i][2][j], m.semantic_index[i][1])

RECURSIVE SumOffsets(_)
SumOffsets(idx) ==
  IF idx = <<>> THEN 0 ELSE Len(Head(idx)[2]) + SumOffsets(Tail(idx))

\* the offsets recorded in the index, over all tags
IndexSize(m) == SumOffsets(m.semantic_index)

InsertingOps ==
  {"set_goal", "add_sub_goal", "add_observation", "add_action",
   "add_reflection", "add_error", "add_note"}

\* C40: while fewer than short_term_capacity items have been inserted,
\* every offset recorded in the tag index for tag t is the position of a
\* short-term item carrying t; once insertions exceed the capacity (or after
\* clear_short_term) a recorded offset can point at a position whose item
\* does not carry t or that does not exist, and the index keeps growing
\* beyond the capacity: every insertion adds to it and clear_short_term
\* leaves it as it is.
C40_TagIndex ==
  /\ (call.cleared = 0 /\ Len(call.inserted) < memory.short_term_capacity) =>
        ~Stale(memory)
  /\ (call.op \in InsertingOps) =>
        /\ IndexSize(memory) > IndexSize(call.before)
        /\ Len(memory.semantic_index) >= Len(call.before.semantic_index)
  /\ (call.op = "clear_short_term") =>
        memory.semantic_index = call.before.semantic_index

\* clear_short_term on a buffer of capacity 1 that had received two items:
\* before the call an offset pointed at an item without the tag and the
\* index was larger than the capacity; after it the offsets point at
\* positions that do not exist
C40_Witness ==
  /\ call.op = "clear_short_term"
  /\ call.before.short_term_capacity = 1
  /\ Len(call.before.short_term) = 1
  /\ Stale(call.before)
  /\ \E i \in 1..Len(call.before.semantic_index) :
        \E j \in 1..Len(call.before.semantic_index[i][2]) :
           LET o == call.before.semantic_index[i][2][j]
           IN o = 0 /\ ~Carries(call.before, o, call.before.semantic_index[i][1])
  /\ IndexSize(call.before) > call.before.short_term_capacity
  /\ memory.short_term = <<>>
  /\ IndexSize(memory) = IndexSize(call.before)
  /\ Stale(memory)

====
